---- MODULE Spec2Model ----
(***************************************************************************)
(* A model of gocog, a reader for Cloud Optimized GeoTIFF files.           *)
(*                                                                         *)
(* The module holds one state machine per component, each with its own     *)
(* specification over its own group of variables; the variables of the     *)
(* other components stay at their idle values:                             *)
(*   SpecRR     the HTTP range reader with its read-ahead window           *)
(*   SpecInline the decoding of a tag value held in the 4-byte slot        *)
(*   SpecTIFF   the parse of the header and of the chain of IFDs           *)
(*   SpecCOG    the operations of an opened COG: metadata queries and      *)
(*              pixel reads, with the loading of the deferred tags         *)
(*   SpecOverview the choice of the IFD a window is read from              *)
(*   SpecRegion the pixels ReadRegion returns for a stripped image         *)
(*   SpecBlit   the bytes the tile engine returns for a rectangle          *)
(*   SpecEngine the steps of a pixel read and the pool buffers it holds    *)
(*   SpecReadFull a tile or tag read through io.ReadFull over the range    *)
(*              reader, with a server that may send fewer bytes than asked *)
(*   SpecDecode the decoding of pixel bytes into the flat sample buffer    *)
(*   SpecPool   the buffer pool: GetBuffer and PutBuffer                   *)
(*   SpecTIFFWalk the parse of the files with a valid header, with the     *)
(*              fairness that lets the walk over the IFDs go on            *)
(*   SpecTags   the value and the flag the parse gives one tag, for each   *)
(*              type and each place the value can lie                      *)
(*   SpecThreads several goroutines calling Read, Seek and ClearBuffer on  *)
(*              one range reader, through its mutex                        *)
(*   SpecCopy   copyTileToOutput on tile data of any length                *)
(*   SpecStrips a stripped read with compressed strips, the last strip     *)
(*              shorter than the others                                    *)
(*   SpecParallel the parallel path of a tiled read under a fair scheduler *)
(***************************************************************************)
EXTENDS Integers, Sequences, FiniteSets, TLC

VARIABLES
    \* HTTPRangeReader (http range reader): the fields of the struct
    size,           \* rr.size: Content-Length of the HEAD on open, -1 if unknown
    pos,            \* rr.pos
    buffer,         \* rr.buffer: the read-ahead bytes, <<>> when nil
    bufferStart,    \* rr.bufferStart
    bufferEnd,      \* rr.bufferEnd (exclusive)
    readAheadSize,  \* rr.readAheadSize
    server,         \* how the remote server treats a Range header
    rrLast,         \* what the last call on the reader did and returned
    \* one IFD entry whose value lies in its 4-byte slot
    inlFile,        \* the entry as the file holds it: byte order, type, count, values
    inlTag,         \* the Tag the parser made of it, NoTag before the parse
    \* TIFFReader
    tiffFile,       \* the file behind tr.r
    trMetadataOnly, \* the metadataOnly argument of NewTIFFReaderWithFilter
    trByteOrder,    \* tr.byteOrder, "none" before the header is read
    trIfds,         \* tr.ifds
    trOffset,       \* currentOffset of readIFDsWithFilter
    trPc,           \* where the parse stands: new, walk, done, failed
    \* COG
    cogMetadata,    \* c.metadata, one entry per IFD
    cogSelected,    \* the IFD indexes a pixel read has selected so far
    cogLast,        \* what the last call on the COG did and returned
    \* COG.selectOverview
    ovMetadata,     \* c.metadata: size, data type and band count of each IFD
    ovRect,         \* the rect argument of the last call
    ovIndex,        \* the index the last call returned, -1 before any call
    \* COG.ReadRegion on a stripped, uncompressed image
    rgImage,        \* the image: its metadata, its strips and its bytes
    rgCall,         \* the bound and overview arguments of the last call
    rgData,         \* the RasterData or the error the last call returned
    \* COG.readTiledRegion on an uncompressed image
    btImage,        \* the image: its size, its tile size and its tile offsets
    btRect,         \* the rectangle of the last call
    btOutput,       \* the bytes the last call returned
    \* one pixel read: readTiledRegion or readStrippedRegion
    enRead,         \* the read: layout, compression, tiles or strips, cores, sizes
    enPc,           \* where the read stands
    enI,            \* the index of the loop the read is in
    enItems,        \* per tile or strip: compressedData, decompressedData, err
    enBufs,         \* per buffer made so far: from the pool or not, times put back
    enQueue,        \* workChan: the tiles sent and not yet received
    enClosed,       \* workChan has been closed
    enWorkers,      \* per worker goroutine: waiting, holding a tile, or gone
    enResult,       \* "running", "ok" or the error returned
    enLog,          \* what the read did so far: reads, decompressions, copies
    \* one read of n bytes at an offset through io.ReadFull
    rfCall,         \* the read: who reads (tile or tag), the offset, the byte count
    rfPc,           \* "idle", "reading" (inside the loop of io.ReadFull) or "done"
    rfOut,          \* the bytes io.ReadFull has put into its buffer so far
    rfReqs,         \* the range requests sent for this read, in order
    rfErr,          \* the error the tile or tag read returned, "none" for nil
    \* decodeBytesToFlat
    dcIn,           \* the arguments: data, further bytes, width, height, bands, type
    dcOut,          \* the result for the data, <<>> before the call
    dcOutExt,       \* the result for the data followed by the further bytes
    \* the buffer pool
    plPool,         \* per size class, the buffers lying in its sync.Pool
    plHeld,         \* the slices handed out and not put back: buffer, length, capacity
    plCaps,         \* the capacity of every buffer made so far
    plLast,         \* what the last call did and returned
    \* one IFD entry of any type, in the slot or at an offset
    tgFile,         \* the file: byte order, the entry, where its value lies
    tgMode,         \* "metadata" (metadata-only parse) or "full"
    tgTags,         \* ifd.Tags after the parse, <<>> before
    tgPc,           \* "new", "parsed", "loaded"
    \* copyTileToOutput on tiles whose data has any length
    cpCall,         \* the image, the rectangle and the length of the data of each tile
    cpOut,          \* the output buffer, <<>> before the call
    cpSpans,        \* the slices taken by the copies, as [tile, src, dst, n]
    \* readStrippedRegion on compressed strips
    stImage,        \* the image, its compression and what each strip decompresses to
    stCall,         \* the rectangle read, NoRect before the call
    stResult,       \* the error or the output of the call
    \* several goroutines calling one range reader
    mtMu,           \* the goroutine that holds rr.mu, 0 for none
    mtThreads,      \* per goroutine: where it is in its call, the call, what it found and returned
    mtSeq           \* the fields of a reader that got the same calls one after the other

rrVars == <<size, pos, buffer, bufferStart, bufferEnd, readAheadSize, server, rrLast>>

inlVars == <<inlFile, inlTag>>

tiffVars == <<tiffFile, trMetadataOnly, trByteOrder, trIfds, trOffset, trPc>>

cogVars == <<cogMetadata, cogSelected, cogLast>>

ovVars == <<ovMetadata, ovRect, ovIndex>>

rgVars == <<rgImage, rgCall, rgData>>

btVars == <<btImage, btRect, btOutput>>

enVars == <<enRead, enPc, enI, enItems, enBufs, enQueue, enClosed, enWorkers,
           enResult, enLog>>

rfVars == <<rfCall, rfPc, rfOut, rfReqs, rfErr>>

dcVars == <<dcIn, dcOut, dcOutExt>>

plVars == <<plPool, plHeld, plCaps, plLast>>

tgVars == <<tgFile, tgMode, tgTags, tgPc>>

\* the components added for the parse of single tags and later ones
cpVars == <<cpCall, cpOut, cpSpans>>

stVars == <<stImage, stCall, stResult>>

mtVars == <<mtMu, mtThreads, mtSeq>>

lateVars == <<tgVars, cpVars, stVars, mtVars>>

vars == <<rrVars, inlVars, tiffVars, cogVars, ovVars, rgVars, btVars, enVars,
          rfVars, dcVars, plVars, lateVars>>

\* the variables of the other components
notRR == <<inlVars, tiffVars, cogVars, ovVars, rgVars, btVars, enVars,
    rfVars, dcVars, plVars, lateVars>>
notInl == <<rrVars, tiffVars, cogVars, ovVars, rgVars, btVars, enVars,
    rfVars, dcVars, plVars, lateVars>>
notTIFF == <<rrVars, inlVars, cogVars, ovVars, rgVars, btVars, enVars,
    rfVars, dcVars, plVars, lateVars>>
notCOG == <<rrVars, inlVars, ovVars, rgVars, btVars, enVars,
    rfVars, dcVars, plVars, lateVars>>
notOv == <<rrVars, inlVars, tiffVars, cogVars, rgVars, btVars, enVars,
    rfVars, dcVars, plVars, lateVars>>
notRg == <<rrVars, inlVars, tiffVars, cogVars, ovVars, btVars, enVars,
    rfVars, dcVars, plVars, lateVars>>
notBt == <<rrVars, inlVars, tiffVars, cogVars, ovVars, rgVars, enVars,
    rfVars, dcVars, plVars, lateVars>>
notEn == <<rrVars, inlVars, tiffVars, cogVars, ovVars, rgVars, btVars,
    rfVars, dcVars, plVars, lateVars>>
notRF == <<inlVars, tiffVars, cogVars, ovVars, rgVars, btVars, enVars, dcVars, plVars, lateVars>>
notDc == <<rrVars, inlVars, tiffVars, cogVars, ovVars, rgVars, btVars, enVars,
    rfVars, plVars, lateVars>>
notPl == <<rrVars, inlVars, tiffVars, cogVars, ovVars, rgVars, btVars, enVars,
    rfVars, dcVars, lateVars>>


allEarlyVars == <<rrVars, inlVars, tiffVars, cogVars, ovVars, rgVars, btVars, enVars,
    rfVars, dcVars, plVars>>
notTg == <<allEarlyVars, cpVars, stVars, mtVars>>
notCp == <<allEarlyVars, tgVars, stVars, mtVars>>
notSt == <<allEarlyVars, tgVars, cpVars, mtVars>>
notMt == <<inlVars, tiffVars, cogVars, ovVars, rgVars, btVars, enVars,
    rfVars, dcVars, plVars, tgVars, cpVars, stVars>>
(***************************************************************************)
(* Helpers on integers and byte sequences.  File offsets are 0-based, a    *)
(* sequence index is the offset plus one.                                  *)
(***************************************************************************)
Min(a, b) == IF a < b THEN a ELSE b
Max(a, b) == IF a > b THEN a ELSE b

\* s[a:b] of Go: the elements at 0-based offsets a .. b-1
Slice(s, a, b) == SubSeq(s, a + 1, b)

(***************************************************************************)
(* The idle values of each component's variables.                          *)
(***************************************************************************)
NoValue == [kind |-> "nil", elems |-> <<>>]

NoTag == [Type |-> 0, Count |-> 0, Offset |-> [hi |-> 0, lo |-> 0],
          Value |-> NoValue, IsOffset |-> FALSE]

NoFile == [magic |-> <<>>, bo |-> "II", version |-> 0, first |-> 0, len |-> 0, crs |-> ""]

RRIdle ==
    /\ size = -1 /\ pos = 0 /\ buffer = <<>> /\ bufferStart = -1 /\ bufferEnd = -1
    /\ readAheadSize = 1 /\ server = "honours"
    /\ rrLast = [op |-> "none"]

InlIdle ==
    /\ inlFile = [bo |-> "II", type |-> 0, count |-> 0, values |-> <<>>]
    /\ inlTag = NoTag

TIFFIdle ==
    /\ tiffFile = NoFile /\ trMetadataOnly = FALSE /\ trByteOrder = "none"
    /\ trIfds = <<>> /\ trOffset = 0 /\ trPc = "idle"

COGIdle ==
    /\ cogMetadata = <<>> /\ cogSelected = {} /\ cogLast = [op |-> "none"]

NoRect == [X |-> 0, Y |-> 0, Width |-> 0, Height |-> 0]

OvIdle ==
    /\ ovMetadata = <<>> /\ ovRect = NoRect /\ ovIndex = -1

RgIdle ==
    /\ rgImage = <<>> /\ rgCall = <<>> /\ rgData = [err |-> "not called"]

BtIdle ==
    /\ btImage = <<>> /\ btRect = NoRect /\ btOutput = <<>>

EnIdle ==
    /\ enRead = <<>> /\ enPc = "idle" /\ enI = 0 /\ enItems = <<>> /\ enBufs = <<>>
    /\ enQueue = <<>> /\ enWorkers = <<>> /\ enResult = "none"
    /\ enClosed = FALSE /\ enLog = <<>>

RFIdle ==
    /\ rfCall = NoValue /\ rfPc = "idle" /\ rfOut = <<>> /\ rfReqs = <<>>
    /\ rfErr = "none"

DcIdle == dcIn = NoValue /\ dcOut = <<>> /\ dcOutExt = <<>>

PlIdle == plPool = NoValue /\ plHeld = {} /\ plCaps = <<>> /\ plLast = NoValue

TgIdle == tgFile = NoValue /\ tgMode = "" /\ tgTags = <<>> /\ tgPc = ""

CpIdle == cpCall = NoValue /\ cpOut = <<>> /\ cpSpans = <<>>

StIdle == stImage = NoValue /\ stCall = NoRect /\ stResult = NoValue

MtIdle == /\ mtMu = 0 /\ mtThreads = <<>> /\ mtSeq = <<>>

\* every component but those named is idle
OthersIdle(c) ==
    /\ IF "rr" \in c THEN TRUE ELSE RRIdle
    /\ IF "inl" \in c THEN TRUE ELSE InlIdle
    /\ IF "tiff" \in c THEN TRUE ELSE TIFFIdle
    /\ IF "cog" \in c THEN TRUE ELSE COGIdle
    /\ IF "ov" \in c THEN TRUE ELSE OvIdle
    /\ IF "rg" \in c THEN TRUE ELSE RgIdle
    /\ IF "bt" \in c THEN TRUE ELSE BtIdle
    /\ IF "en" \in c THEN TRUE ELSE EnIdle
    /\ IF "rf" \in c THEN TRUE ELSE RFIdle
    /\ IF "dc" \in c THEN TRUE ELSE DcIdle
    /\ IF "pl" \in c THEN TRUE ELSE PlIdle
    /\ IF "tg" \in c THEN TRUE ELSE TgIdle
    /\ IF "cp" \in c THEN TRUE ELSE CpIdle
    /\ IF "st" \in c THEN TRUE ELSE StIdle
    /\ IF "mt" \in c THEN TRUE ELSE MtIdle
(***************************************************************************)
(* The remote file and the server.                                         *)
(***************************************************************************)
FileLen == 6
MaxRead == 4
MaxPos == 7

\* the bytes of the remote file: all different, so a shifted copy is seen
fileData == [i \in 1..FileLen |-> 16 + i]

StatusPartialContent == 206
StatusOK == 200
StatusRangeNotSatisfiable == 416
StatusInternalServerError == 500

\* The answer of the server to GET with Range: bytes=start-end.
\*   "range": the server honours the header (206 with the bytes asked for,
\*            cut at the end of the file; 416 when start is past the end)
\*   "full":  the server ignores the header (200 with the whole file)
\*   "fail":  the server answers with a 5xx status
\*   "down":  the request itself fails, there is no response (status 0)
\*   "short": as "range", but the body stops one byte early
ServerResponse(kind, start, end) ==
    CASE kind = "range" ->
            IF start >= FileLen
            THEN [status |-> StatusRangeNotSatisfiable, body |-> <<>>]
            ELSE [status |-> StatusPartialContent,
                  body |-> Slice(fileData, start, Min(end, FileLen - 1) + 1)]
      [] kind = "full" -> [status |-> StatusOK, body |-> fileData]
      [] kind = "down" -> [status |-> 0, body |-> <<>>]
      [] kind = "short" ->
            IF start >= FileLen
            THEN [status |-> StatusRangeNotSatisfiable, body |-> <<>>]
            ELSE [status |-> StatusPartialContent,
                  body |-> Slice(fileData, start, Min(end, FileLen - 1))]
      [] OTHER -> [status |-> StatusInternalServerError, body |-> <<>>]

\* the answers a server can give to one request
ResponseKinds ==
    IF server = "honours" THEN {"range", "fail", "down"} ELSE {"full", "fail", "down"}

(***************************************************************************)
(* HTTPRangeReader.  Each operator takes the reader's fields as a record   *)
(* st = [pos, buffer, bufferStart, bufferEnd] and returns the record after *)
(* the call together with what the call returned.                          *)
(***************************************************************************)
RRState == [pos |-> pos, buffer |-> buffer,
            bufferStart |-> bufferStart, bufferEnd |-> bufferEnd]

\* a plausible slip: every status is taken for a success
AnyStatus(status) == TRUE

\* fetchRange: StatusPartialContent and StatusOK are the accepted statuses
AcceptedStatus(status) == status = StatusPartialContent \/ status = StatusOK

\* fetchRange: [err, data, req] for the request of [start, end]
fetchRange(start, end, kind) ==
    LET e == IF size > 0 /\ end >= size THEN size - 1 ELSE end
        resp == ServerResponse(kind, start, e)
        req == [start |-> start, end |-> e, status |-> resp.status, got |-> Len(resp.body)]
    IN  IF kind = "down"
        THEN [err |-> TRUE, data |-> <<>>, req |-> req]
        ELSE IF ~AcceptedStatus(resp.status)
        THEN [err |-> TRUE, data |-> <<>>, req |-> req]
        ELSE [err |-> FALSE, data |-> resp.body, req |-> req]

\* a plausible slip: the window is filed under offset 0 instead of rr.pos
StoreWindowAtZero(st, data) ==
    [st EXCEPT !.buffer = data,
               !.bufferStart = 0,
               !.bufferEnd = Len(data)]

\* the window stored from a response at position p
StoreWindow(st, data) ==
    [st EXCEPT !.buffer = data,
               !.bufferStart = st.pos,
               !.bufferEnd = st.pos + Len(data)]

\* a plausible slip: every response is kept as the window
KeptAlways(data, toRead) == TRUE

\* readWithReadAhead: only a response longer than the caller's request is
\* stored for future reads
KeptForLater(data, toRead) == Len(data) > toRead

\* readWithReadAhead: a miss at st.pos of toRead bytes
readWithReadAhead(st, toRead, kind) ==
    LET rs0 == IF readAheadSize < toRead THEN toRead ELSE readAheadSize
        readSize == IF size > 0 /\ st.pos + rs0 > size THEN size - st.pos ELSE rs0
        f == fetchRange(st.pos, st.pos + readSize - 1, kind)
    IN  IF f.err
        THEN [st |-> st, out |-> <<>>, err |-> "error",
              reqs |-> <<f.req>>, served |-> {}]
        ELSE LET st1 == IF KeptForLater(f.data, toRead) THEN StoreWindow(st, f.data) ELSE st
                 k == Min(Len(f.data), toRead)
             IN  IF k = 0 /\ Len(f.data) = 0
                 THEN [st |-> st1, out |-> <<>>, err |-> "eof",
                       reqs |-> <<f.req>>, served |-> {}]
                 ELSE [st |-> [st1 EXCEPT !.pos = st.pos + k],
                       out |-> Slice(f.data, 0, k), err |-> "none",
                       reqs |-> <<f.req>>, served |-> {}]

\* a plausible slip: the rest of a partial hit is read as a miss
readAsMiss(st, toRead, kind) == readWithReadAhead(st, toRead, kind)

\* readFromNetwork: toRead bytes at st.pos straight from the network
readFromNetwork(st, toRead, kind) ==
    LET f == fetchRange(st.pos, st.pos + toRead - 1, kind)
    IN  IF f.err
        THEN [st |-> st, out |-> <<>>, err |-> "error",
              reqs |-> <<f.req>>]
        ELSE LET k == Min(Len(f.data), toRead)
             IN  [st |-> [st EXCEPT !.pos = st.pos + k],
                  out |-> Slice(f.data, 0, k), err |-> "none",
                  reqs |-> <<f.req>>]

\* Read(p) with len(p) = n
Read(st, n, kind) ==
    IF st.pos >= size /\ size > 0
    THEN [st |-> st, out |-> <<>>, err |-> "eof", reqs |-> <<>>, served |-> {}]
    ELSE
    LET toRead == IF size > 0 /\ st.pos + n > size THEN size - st.pos ELSE n
    IN  IF st.buffer # <<>> /\ st.pos >= st.bufferStart /\ st.pos < st.bufferEnd
        THEN LET bufferOffset == st.pos - st.bufferStart
                 availableInBuffer == st.bufferEnd - st.pos
             IN  IF availableInBuffer >= toRead
                 THEN [st |-> [st EXCEPT !.pos = st.pos + toRead],
                       out |-> Slice(st.buffer, bufferOffset, bufferOffset + toRead),
                       err |-> "none", reqs |-> <<>>,
                       served |-> st.pos .. (st.pos + toRead - 1)]
                 ELSE LET head == Slice(st.buffer, bufferOffset, Len(st.buffer))
                          st1 == [st EXCEPT !.pos = st.pos + Len(head)]
                          r == readFromNetwork(st1, toRead - Len(head), kind)
                      IN  [st |-> r.st, out |-> head \o r.out, err |-> r.err,
                           reqs |-> r.reqs,
                           served |-> st.pos .. (st.pos + Len(head) - 1)]
        ELSE readWithReadAhead(st, toRead, kind)

SeekStart == 0
SeekCurrent == 1
SeekEnd == 2

\* a plausible slip: a negative target is let through
SeekRefusedByWhence(whence, newPos) ==
    \/ whence \notin {SeekStart, SeekCurrent, SeekEnd}
    \/ whence = SeekEnd /\ size < 0

\* the three error returns of Seek
SeekRefused(whence, newPos) ==
    \/ whence \notin {SeekStart, SeekCurrent, SeekEnd}
    \/ whence = SeekEnd /\ size < 0
    \/ newPos < 0

\* a plausible slip: the window survives every seek
OutsideNever(st, newPos) == FALSE

\* Seek: the new position is outside the buffered range
OutsideBuffer(st, newPos) ==
    st.buffer # <<>> /\ (newPos < st.bufferStart \/ newPos >= st.bufferEnd)

\* Seek(offset, whence): [st, ret, err]
Seek(st, offset, whence) ==
    LET newPos == CASE whence = SeekStart -> offset
                    [] whence = SeekCurrent -> st.pos + offset
                    [] OTHER -> size + offset
    IN  IF SeekRefused(whence, newPos)
        THEN [st |-> st, ret |-> 0, err |-> TRUE]
        ELSE LET st1 == IF OutsideBuffer(st, newPos)
                        THEN [st EXCEPT !.bufferStart = -1, !.bufferEnd = -1]
                        ELSE st
             IN  [st |-> [st1 EXCEPT !.pos = newPos], ret |-> newPos, err |-> FALSE]

\* ClearBuffer
ClearBuffer(st) == [st EXCEPT !.buffer = <<>>, !.bufferStart = -1, !.bufferEnd = -1]

NoCall == [op |-> "none", p |-> 0, n |-> 0, out |-> <<>>, err |-> "none",
           reqs |-> <<>>, served |-> {}, ws |-> -1, we |-> -1]

\* NewHTTPRangeReader / NewHTTPRangeReaderWithReadAhead
RRInit ==
    /\ size \in {FileLen, -1}
    /\ pos = 0
    /\ buffer = <<>>
    /\ bufferStart = -1
    /\ bufferEnd = -1
    /\ readAheadSize \in {2, 3}
    /\ server \in {"honours", "ignores"}
    /\ rrLast = NoCall
    /\ OthersIdle({"rr"})

RRSetState(st) ==
    /\ pos' = st.pos
    /\ buffer' = st.buffer
    /\ bufferStart' = st.bufferStart
    /\ bufferEnd' = st.bufferEnd

RRRead ==
    \E n \in 0..MaxRead : \E kind \in ResponseKinds :
        LET r == Read(RRState, n, kind)
        IN  /\ r.st.pos <= MaxPos
            /\ RRSetState(r.st)
            /\ rrLast' = [op |-> "read", p |-> pos, n |-> n, out |-> r.out,
                          err |-> r.err, reqs |-> r.reqs, served |-> r.served,
                          ws |-> bufferStart, we |-> bufferEnd]
            /\ UNCHANGED <<size, readAheadSize, server>> /\ UNCHANGED notRR

RRSeek ==
    \E whence \in 0..3 : \E offset \in -2..MaxPos :
        LET r == Seek(RRState, offset, whence)
        IN  /\ r.st.pos <= MaxPos
            /\ RRSetState(r.st)
            /\ rrLast' = [op |-> IF r.err THEN "seekfail" ELSE "seek",
                          p |-> pos, n |-> r.ret, out |-> <<>>, err |-> "none",
                          reqs |-> <<>>, served |-> {},
                          ws |-> bufferStart, we |-> bufferEnd,
                          offset |-> offset, whence |-> whence]
            /\ UNCHANGED <<size, readAheadSize, server>> /\ UNCHANGED notRR

RRClearBuffer ==
    /\ RRSetState(ClearBuffer(RRState))
    /\ rrLast' = [NoCall EXCEPT !.op = "clear", !.p = pos,
                                !.ws = bufferStart, !.we = bufferEnd]
    /\ UNCHANGED <<size, readAheadSize, server>> /\ UNCHANGED notRR

RRNext == RRRead \/ RRSeek \/ RRClearBuffer

SpecRR == RRInit /\ [][RRNext]_vars

(***************************************************************************)
(* Claims on the range reader.                                             *)
(***************************************************************************)

\* C1: with a server that honours Range requests, whatever seeks, reads and
\* clear_buffer calls came before and whatever the read-ahead window holds,
\* a read of n bytes at position p returns exactly the file's bytes
\* [p, p+k) for some k <= n and leaves the position at p+k.  Two reads of
\* the same range, with or without a seek between them, therefore agree.
C1_ReadReturnsFileBytes ==
    (server = "honours" /\ rrLast.op = "read") =>
        LET k == Len(rrLast.out)
        IN  /\ k <= rrLast.n
            /\ rrLast.p + k <= FileLen \/ k = 0
            /\ k > 0 => rrLast.out = Slice(fileData, rrLast.p, rrLast.p + k)
            /\ pos = rrLast.p + k

\* C1 witness: a read that took its first bytes from the window and the
\* rest from a second request, after the position had been moved by a seek.
C1_Witness ==
    /\ server = "honours"
    /\ rrLast.op = "read"
    /\ rrLast.p > 0
    /\ rrLast.served # {}
    /\ rrLast.reqs # <<>>
    /\ rrLast.err = "none"
    /\ Len(rrLast.out) = rrLast.n

\* C2: in every reachable state, the HTTP responses having had an accepted
\* status (206 or 200), when bufferStart <= bufferEnd the bytes held for
\* [bufferStart, bufferEnd) are the file's bytes at those offsets, and a
\* read serves from the buffer only offsets inside the window it found.
C2_WindowHoldsFileBytes ==
    /\ (buffer # <<>> /\ 0 <= bufferStart /\ bufferStart <= bufferEnd) =>
            /\ bufferEnd <= FileLen
            /\ buffer = Slice(fileData, bufferStart, bufferEnd)
    /\ rrLast.op = "read" =>
            \A o \in rrLast.served : rrLast.ws <= o /\ o < rrLast.we

\* C12: seek(offset, whence) sets and returns the new absolute position:
\* offset for Start, pos+offset for Current, size+offset for End.  It fails
\* when whence is End and the size is unknown, when whence is none of the
\* three, or when the target is negative, and a failed seek leaves the
\* position and the read-ahead window as they were.
C12_SeekSetsPosition ==
    /\ rrLast.op \in {"seek", "seekfail"} =>
        LET target == CASE rrLast.whence = 0 -> rrLast.offset
                        [] rrLast.whence = 1 -> rrLast.p + rrLast.offset
                        [] OTHER -> size + rrLast.offset
            fails == \/ rrLast.whence \notin {0, 1, 2}
                     \/ rrLast.whence = 2 /\ size = -1
                     \/ target < 0
        IN  IF fails
            THEN /\ rrLast.op = "seekfail"
                 /\ pos = rrLast.p
                 /\ bufferStart = rrLast.ws /\ bufferEnd = rrLast.we
            ELSE /\ rrLast.op = "seek"
                 /\ pos = target /\ rrLast.n = target
    /\ pos >= 0

\* a seek from the current position to a negative target fails with a
\* window in place, which stays
C12_Witness ==
    /\ rrLast.op = "seekfail" /\ rrLast.whence = 1
    /\ rrLast.p > 0 /\ rrLast.p + rrLast.offset < 0
    /\ buffer # <<>> /\ bufferStart >= 0 /\ bufferEnd > bufferStart
    /\ pos = rrLast.p

\* C13: a read that needs a range request fails whenever the response
\* status is neither 206 nor 200 or the request itself fails (no response,
\* status 0); a read that fails on a window miss returns 0 bytes and leaves
\* the position and the read-ahead window exactly as they were.
C13_FailedRequestFailsRead ==
    /\ [](rrLast.op = "read" =>
            \A i \in 1..Len(rrLast.reqs) :
                rrLast.reqs[i].status \notin {206, 200} => rrLast.err = "error")
    /\ [][(rrLast'.op = "read" /\ rrLast'.err = "error" /\ rrLast'.served = {}) =>
            /\ rrLast'.out = <<>>
            /\ UNCHANGED <<pos, buffer, bufferStart, bufferEnd>>]_vars

\* the request of a miss right behind a standing window fails without a
\* response
C13_Witness ==
    /\ rrLast.op = "read" /\ rrLast.err = "error" /\ rrLast.served = {}
    /\ rrLast.n > 0
    /\ Len(rrLast.reqs) = 1 /\ rrLast.reqs[1].status = 0
    /\ buffer # <<>> /\ 0 <= bufferStart /\ bufferStart < bufferEnd
    /\ pos = bufferEnd /\ pos = rrLast.p

\* a partial hit whose request for the rest is answered 500
C13_WitnessPartial ==
    /\ rrLast.op = "read" /\ rrLast.err = "error" /\ rrLast.served # {}
    /\ Len(rrLast.reqs) = 1 /\ rrLast.reqs[1].status = 500

\* the miss that the last call was, if it was one: a read that found its
\* position outside the window and had its request accepted
LastMiss ==
    /\ rrLast.op = "read" /\ rrLast.served = {}
    /\ Len(rrLast.reqs) = 1 /\ rrLast.reqs[1].status \in {206, 200}

\* the bytes asked of the last read, cut at the end of a file of known size
LastToRead ==
    IF size > 0 /\ rrLast.p + rrLast.n > size THEN size - rrLast.p ELSE rrLast.n

\* the one request of a miss: max(request size, read-ahead size) bytes from
\* p, cut at the end of the file
MissRequest ==
    rrLast.op = "read" /\ rrLast.served = {} /\ rrLast.reqs # <<>> =>
        LET want == IF rrLast.n > readAheadSize THEN rrLast.n ELSE readAheadSize
            last == rrLast.p + want - 1
        IN  /\ Len(rrLast.reqs) = 1
            /\ rrLast.reqs[1].start = rrLast.p
            /\ rrLast.reqs[1].end = IF size > 0 /\ last >= size THEN size - 1 ELSE last

\* a read lying entirely inside the window issues no request
InsideWindowNoRequest ==
    [][(/\ rrLast'.op = "read"
        /\ buffer # <<>> /\ bufferStart <= pos /\ pos < bufferEnd
        /\ pos + rrLast'.n <= bufferEnd) =>
            /\ rrLast'.reqs = <<>>
            /\ UNCHANGED <<buffer, bufferStart, bufferEnd>>]_vars

\* C17 as stated: on a miss at p exactly one request goes out, for
\* max(request size, read-ahead size) bytes from p cut at the file end; the
\* full response becomes the window [p, p+len(response)) whatever the
\* request size, the caller's bytes are served from it, and a following
\* read inside the window issues no request.
C17_MissFillsWindow ==
    /\ [](MissRequest)
    /\ [](LastMiss =>
            /\ bufferStart = rrLast.p
            /\ bufferEnd = rrLast.p + rrLast.reqs[1].got
            /\ Len(buffer) = rrLast.reqs[1].got
            /\ rrLast.out = Slice(buffer, 0, Len(rrLast.out)))
    /\ InsideWindowNoRequest

\* C17 (amended): the request is as stated; the response becomes the window
\* [p, p+len(response)) only when it holds more bytes than the caller asked
\* for, and then the caller's bytes are its first ones; a response of at
\* most the caller's size goes to the caller whole and the window found
\* by the call is left in place; a read inside the window issues no request.
C17_MissFillsWindowWhenLonger ==
    /\ [](MissRequest)
    /\ [](LastMiss /\ rrLast.reqs[1].got > LastToRead =>
            /\ bufferStart = rrLast.p
            /\ bufferEnd = rrLast.p + rrLast.reqs[1].got
            /\ Len(buffer) = rrLast.reqs[1].got
            /\ rrLast.out = Slice(buffer, 0, LastToRead))
    /\ [](LastMiss /\ rrLast.reqs[1].got <= LastToRead =>
            /\ bufferStart = rrLast.ws /\ bufferEnd = rrLast.we
            /\ Len(rrLast.out) = rrLast.reqs[1].got)
    /\ [][(rrLast'.op = "read" /\ rrLast'.served = {} /\ Len(rrLast'.reqs) = 1
            /\ rrLast'.reqs[1].got <= rrLast'.n) => buffer' = buffer]_vars
    /\ InsideWindowNoRequest

\* a miss of as many bytes as the read-ahead size, right behind a standing
\* window: the response is handed over and the old window stays
C17_Witness ==
    /\ LastMiss /\ rrLast.n = readAheadSize
    /\ rrLast.reqs[1].got = rrLast.n /\ Len(rrLast.out) = rrLast.n
    /\ rrLast.ws >= 0 /\ rrLast.we = rrLast.p
    /\ bufferStart = rrLast.ws /\ bufferEnd = rrLast.we

\* a miss of fewer bytes than the read-ahead size fills the window
C17_WitnessFilled ==
    /\ LastMiss /\ rrLast.n < readAheadSize /\ rrLast.n > 0
    /\ bufferStart = rrLast.p /\ bufferEnd = rrLast.p + readAheadSize
    /\ rrLast.p > 0

\* the partial hit that the last call was, if it was one: a read that
\* started inside the window, went past its end and had its request accepted
LastPartialHit ==
    /\ rrLast.op = "read" /\ rrLast.served # {}
    /\ Len(rrLast.reqs) = 1 /\ rrLast.reqs[1].status \in {206, 200}

\* the bytes a partial hit still needs behind the window
LastRemaining == LastToRead - (rrLast.we - rrLast.p)

\* C18 as stated: a read that starts inside the window and goes past its
\* end copies the window's bytes and handles the rest as a miss at the
\* window's end: a fetch of max(remaining, read-ahead size) bytes whose
\* response replaces the window; the call returns both parts and advances
\* the position by their total.
C18_PartialHitThenMiss ==
    LastPartialHit =>
        LET want == IF LastRemaining > readAheadSize THEN LastRemaining ELSE readAheadSize
            last == rrLast.we + want - 1
            got == rrLast.reqs[1].got
            k == IF got < LastRemaining THEN got ELSE LastRemaining
        IN  /\ rrLast.served = rrLast.p .. (rrLast.we - 1)
            /\ rrLast.reqs[1].start = rrLast.we
            /\ rrLast.reqs[1].end = IF size > 0 /\ last >= size THEN size - 1 ELSE last
            /\ bufferStart = rrLast.we /\ bufferEnd = rrLast.we + got
            /\ Len(rrLast.out) = (rrLast.we - rrLast.p) + k
            /\ pos = rrLast.p + Len(rrLast.out)

\* C18 (amended): the rest is fetched by one request for exactly the
\* remaining bytes from the window's end, without read-ahead, and the window
\* stays as it was; the call returns the window's bytes followed by the
\* fetched ones and advances the position by their total.
C18_PartialHitThenDirect ==
    /\ [](LastPartialHit =>
            LET got == rrLast.reqs[1].got
                k == IF got < LastRemaining THEN got ELSE LastRemaining
                head == rrLast.we - rrLast.p
            IN  /\ rrLast.served = rrLast.p .. (rrLast.we - 1)
                /\ rrLast.reqs[1].start = rrLast.we
                /\ rrLast.reqs[1].end = rrLast.we + LastRemaining - 1
                /\ bufferStart = rrLast.ws /\ bufferEnd = rrLast.we
                /\ Len(rrLast.out) = head + k
                /\ Slice(rrLast.out, 0, head) =
                        Slice(buffer, rrLast.p - rrLast.ws, rrLast.we - rrLast.ws)
                /\ server = "honours" =>
                        Slice(rrLast.out, head, head + k) =
                            Slice(fileData, rrLast.we, rrLast.we + k)
                /\ pos = rrLast.p + Len(rrLast.out))
    /\ [][(rrLast'.op = "read" /\ rrLast'.served # {}) => buffer' = buffer]_vars

\* a partial hit that takes one byte from the window and two from the
\* network, fewer than the read-ahead size
C18_Witness ==
    /\ LastPartialHit /\ readAheadSize = 3
    /\ rrLast.we - rrLast.p = 1 /\ LastRemaining = 2
    /\ Len(rrLast.out) = 3
    /\ rrLast.reqs[1].end = rrLast.reqs[1].start + 1
    /\ bufferStart = rrLast.ws /\ bufferEnd = rrLast.we /\ pos = bufferEnd + 2

\* the last call was a successful seek to a position inside the window it
\* found
SoughtInside ==
    rrLast.op = "seek" /\ rrLast.ws <= pos /\ pos < rrLast.we

\* the last call was a successful seek to a position outside the window it
\* found
SoughtOutside ==
    rrLast.op = "seek" /\ ~(rrLast.ws <= pos /\ pos < rrLast.we)

\* C19: a successful seek to a position inside the window [bufferStart,
\* bufferEnd) leaves the window and its bytes as they were; a successful
\* seek to a position outside it invalidates the window, so that the next
\* read is a miss (nothing served from the buffer, a request when the
\* position is not at the end of the file); seek issues no request and
\* changes nothing but the position and the window bounds.
C19_SeekKeepsOrDropsWindow ==
    /\ [](SoughtInside => bufferStart = rrLast.ws /\ bufferEnd = rrLast.we)
    /\ [](SoughtOutside => bufferStart = -1 /\ bufferEnd = -1)
    /\ [](rrLast.op \in {"seek", "seekfail"} => rrLast.reqs = <<>>)
    /\ [][rrLast'.op \in {"seek", "seekfail"} =>
            UNCHANGED <<buffer, size, readAheadSize, server>>]_vars
    /\ [][(SoughtOutside /\ rrLast'.op = "read") =>
            /\ rrLast'.served = {}
            /\ (size = -1 \/ pos < size) => Len(rrLast'.reqs) = 1]_vars

\* a seek out of a standing window, whose bytes stay in the buffer with the
\* bounds reset
C19_Witness ==
    /\ rrLast.op = "seek" /\ rrLast.ws >= 0 /\ rrLast.we > rrLast.ws
    /\ rrLast.ws <= rrLast.p /\ rrLast.p < rrLast.we
    /\ pos < rrLast.ws
    /\ buffer # <<>> /\ bufferStart = -1 /\ bufferEnd = -1

\* a seek that moves the position inside the window
C19_WitnessInside ==
    /\ SoughtInside /\ pos # rrLast.p
    /\ bufferStart = rrLast.ws /\ bufferEnd = rrLast.we /\ Len(buffer) = bufferEnd - bufferStart

(***************************************************************************)
(* Several goroutines calling Read, Seek and ClearBuffer on one            *)
(* HTTPRangeReader.  Each call begins with rr.mu.Lock() and ends with the  *)
(* deferred rr.mu.Unlock(); between the two it reads the fields of the     *)
(* reader and writes them.  A step is the return of Lock, the body of the  *)
(* call, or the Unlock.  The request of a Read is sent inside the body,    *)
(* with the mutex held.                                                    *)
(***************************************************************************)
MaxThreads == 2

\* the calls tried
MtCalls ==
    {[op |-> "read", n |-> n, offset |-> 0, whence |-> 0] : n \in 1..MaxRead}
    \cup {[op |-> "seek", n |-> 0, offset |-> o, whence |-> SeekStart] : o \in 0..FileLen}
    \cup {[op |-> "seek", n |-> 0, offset |-> o, whence |-> SeekCurrent] : o \in {-1, 2}}
    \cup {[op |-> "seek", n |-> 0, offset |-> -1, whence |-> SeekEnd]}
    \cup {[op |-> "clear", n |-> 0, offset |-> 0, whence |-> 0]}

MtNoCall == [op |-> "none", n |-> 0, offset |-> 0, whence |-> 0]
MtNoReturn == [out |-> <<>>, err |-> "none", n |-> 0]
MtOutside == [pc |-> "outside", call |-> MtNoCall, kind |-> "range", found |-> <<>>,
              ret |-> MtNoReturn, seqRet |-> MtNoReturn]

\* the body of a call on the fields st: the fields after it and what it
\* returns
MtBodyOf(st, call, kind) ==
    CASE call.op = "read" ->
            LET r == Read(st, call.n, kind)
            IN  [st |-> r.st, ret |-> [out |-> r.out, err |-> r.err, n |-> Len(r.out)]]
      [] call.op = "seek" ->
            LET r == Seek(st, call.offset, call.whence)
            IN  [st |-> r.st,
                 ret |-> [out |-> <<>>, err |-> IF r.err THEN "error" ELSE "none",
                          n |-> r.ret]]
      [] OTHER -> [st |-> ClearBuffer(st), ret |-> MtNoReturn]

\* rr.mu.Lock() returns when no goroutine holds the mutex
MutexFree(mu) == mu = 0

MtInit ==
    /\ size \in {FileLen, -1}
    /\ pos = 0
    /\ buffer = <<>>
    /\ bufferStart = -1
    /\ bufferEnd = -1
    /\ readAheadSize \in {2, 3}
    /\ server \in {"honours", "ignores"}
    /\ rrLast = NoCall
    /\ mtMu = 0
    /\ mtThreads = [t \in 1..MaxThreads |-> MtOutside]
    /\ mtSeq = RRState
    /\ OthersIdle({"rr", "mt"})

\* goroutine t calls Read, Seek or ClearBuffer and gets the mutex; the call
\* then looks at the fields
MtLock(t) ==
    /\ mtThreads[t].pc = "outside"
    /\ MutexFree(mtMu)
    /\ \E call \in MtCalls : \E kind \in ResponseKinds :
        /\ MtBodyOf(RRState, call, kind).st.pos <= MaxPos
        /\ mtThreads' = [mtThreads EXCEPT ![t] =
                            [MtOutside EXCEPT !.pc = "locked", !.call = call,
                                              !.kind = kind, !.found = RRState]]
    /\ mtMu' = t
    /\ UNCHANGED <<rrVars, mtSeq>>
    /\ UNCHANGED notMt

\* the body of the call of goroutine t: it writes the fields and has its
\* return values
MtBody(t) ==
    /\ mtThreads[t].pc = "locked"
    /\ LET me == mtThreads[t]
           r == MtBodyOf(me.found, me.call, me.kind)
           s == MtBodyOf(mtSeq, me.call, me.kind)
       IN  /\ RRSetState(r.st)
           /\ mtSeq' = s.st
           /\ mtThreads' = [mtThreads EXCEPT ![t].pc = "unlocking",
                                             ![t].ret = r.ret, ![t].seqRet = s.ret]
    /\ UNCHANGED <<size, readAheadSize, server, rrLast, mtMu>>
    /\ UNCHANGED notMt

\* the deferred rr.mu.Unlock(), and the call returns
MtUnlock(t) ==
    /\ mtThreads[t].pc = "unlocking"
    /\ mtMu' = 0
    /\ mtThreads' = [mtThreads EXCEPT ![t] = MtOutside]
    /\ UNCHANGED <<rrVars, mtSeq>>
    /\ UNCHANGED notMt

MtNext ==
    \E t \in DOMAIN mtThreads : MtLock(t) \/ MtBody(t) \/ MtUnlock(t)

SpecThreads == MtInit /\ [][MtNext]_vars

\* the goroutines inside a call
MtInside == {t \in DOMAIN mtThreads : mtThreads[t].pc # "outside"}

\* the reads that have their return values
MtReadsDone ==
    {t \in DOMAIN mtThreads : mtThreads[t].pc = "unlocking" /\ mtThreads[t].call.op = "read"}

\* the calls are serialized: one goroutine at a time is inside a call, the
\* fields it found are the fields its body works on, and the reader and
\* every return value are those of the same calls made one after the other
MtSerialized ==
    /\ Cardinality(MtInside) <= 1
    /\ \A t \in MtInside : mtMu = t
    /\ \A t \in DOMAIN mtThreads : mtThreads[t].pc = "locked" => mtThreads[t].found = RRState
    /\ RRState = mtSeq
    /\ \A t \in DOMAIN mtThreads : mtThreads[t].ret = mtThreads[t].seqRet

\* the window invariant, and each read returns the bytes of the file at the
\* position it found
MtFileBytes ==
    /\ (buffer # <<>> /\ 0 <= bufferStart /\ bufferStart <= bufferEnd) =>
            /\ bufferEnd <= FileLen
            /\ buffer = Slice(fileData, bufferStart, bufferEnd)
    /\ \A t \in MtReadsDone :
            LET me == mtThreads[t]
                k == Len(me.ret.out)
            IN  /\ k <= me.call.n
                /\ me.found.pos + k <= FileLen \/ k = 0
                /\ k > 0 => me.ret.out = Slice(fileData, me.found.pos, me.found.pos + k)
                /\ pos = me.found.pos + k

\* C21: under any interleaving of read, seek and clear_buffer calls of
\* several threads on one range reader each call takes effect atomically:
\* the window invariant holds in every reachable state, each read returns
\* the file's bytes at the position it found when it started, and position
\* and window are those of some sequential order of the same calls.
C21_CallsAtomicOnFileBytes ==
    MtSerialized /\ MtFileBytes

\* what the code does: the calls are serialized whatever the server
\* answers, and window and reads hold the file's bytes when the server
\* honours the Range header
C21_CallsSerialized ==
    /\ MtSerialized
    /\ server = "honours" => MtFileBytes

\* a read of one goroutine was served partly from the window another
\* goroutine's read had filled
C21_ReadAcrossThreads ==
    /\ server = "honours"
    /\ mtThreads[2].pc = "unlocking" /\ mtThreads[2].call.op = "read"
    /\ mtThreads[2].found.buffer # <<>> /\ mtThreads[2].found.pos > mtThreads[2].found.bufferStart
    /\ mtThreads[2].found.pos < mtThreads[2].found.bufferEnd
    /\ Len(mtThreads[2].ret.out) > mtThreads[2].found.bufferEnd - mtThreads[2].found.pos

\* the server answered 200 with the whole file to a read at position 1:
\* the window holds the bytes of offset 0 on under offset 1 on
C21_WholeFileAsWindow ==
    /\ server = "ignores"
    /\ bufferStart = 1 /\ buffer = fileData
(***************************************************************************)
(* TIFF parser: an IFD entry whose value fits the 4-byte offset slot.      *)
(*                                                                         *)
(* A 32-bit word is kept as its two 16-bit halves [hi, lo], so that every  *)
(* uint32 is representable.  A decoded value is the list of its elements,  *)
(* each as the 32-bit word of its (sign-extended) number.                  *)
(***************************************************************************)
DTByte == 1
DTASCII == 2
DTSShort == 3
DTSLong == 4
DTRational == 5
DTSByte == 6
DTUndefined == 7
DTSShortS == 8
DTSLongS == 9
DTSRational == 10
DTFloat == 11
DTDouble == 12

\* the 32-bit word of the integer v (two's complement for v < 0)
Word(v) == [hi |-> (v \div 65536) % 65536, lo |-> v % 65536]

\* Tag.getTypeSize
getTypeSize(type) ==
    CASE type \in {DTByte, DTASCII, DTSByte, DTUndefined} -> 1
      [] type \in {DTSShort, DTSShortS} -> 2
      [] type \in {DTSLong, DTSLongS, DTFloat} -> 4
      [] type \in {DTRational, DTSRational, DTDouble} -> 8
      [] OTHER -> 1

\* binary.ByteOrder.Uint16 and Uint32 of the bytes b ("II" little, "MM" big)
Uint16(bo, b) == IF bo = "II" THEN b[1] + 256 * b[2] ELSE 256 * b[1] + b[2]
Uint32(bo, b) ==
    IF bo = "II"
    THEN [hi |-> Uint16(bo, <<b[3], b[4]>>), lo |-> Uint16(bo, <<b[1], b[2]>>)]
    ELSE [hi |-> Uint16(bo, <<b[1], b[2]>>), lo |-> Uint16(bo, <<b[3], b[4]>>)]

\* Go's conversions of a uint32 word
ToUint8(w) == w.lo % 256
ToUint16(w) == w.lo
ToInt16(w) == IF w.lo >= 32768 THEN w.lo - 65536 ELSE w.lo

\* readInlineValue: the Value made of tag.Offset
readInlineValue(type, count, offset) ==
    LET one(e) == [kind |-> IF count = 1 THEN "scalar" ELSE "slice", elems |-> <<e>>]
    IN  CASE type = DTByte -> one(Word(ToUint8(offset)))
          [] type = DTSShort -> one(Word(ToUint16(offset)))
          [] type = DTSLong -> one(offset)
          [] type = DTSShortS -> one(Word(ToInt16(offset)))
          [] type = DTSLongS -> one(offset)
          [] OTHER -> [kind |-> "scalar", elems |-> <<offset>>]

\* readTagFromBuffer, then the inline branch of readTagValuesWithFilter,
\* readTagValuesMetadataOnly and ReadTagValue (valueSize <= 4)
ParseInlineTag(bo, type, count, slot) ==
    LET offset == Uint32(bo, slot)
    IN  [Type |-> type, Count |-> count, Offset |-> offset,
         Value |-> readInlineValue(type, count, offset), IsOffset |-> FALSE]

(***************************************************************************)
(* The file side: how a TIFF writer lays count values of a type into the   *)
(* slot (each value in the file's byte order, left-justified, zero padded) *)
(***************************************************************************)
EncodeValue(bo, type, v) ==
    LET w == Word(v)
        b0 == w.lo % 256
        b1 == w.lo \div 256
        b2 == w.hi % 256
        b3 == w.hi \div 256
        n == getTypeSize(type)
    IN  CASE n = 1 -> <<b0>>
          [] n = 2 -> IF bo = "II" THEN <<b0, b1>> ELSE <<b1, b0>>
          [] OTHER -> IF bo = "II" THEN <<b0, b1, b2, b3>> ELSE <<b3, b2, b1, b0>>

RECURSIVE EncodeValues(_, _, _)
EncodeValues(bo, type, values) ==
    IF values = <<>> THEN <<>>
    ELSE EncodeValue(bo, type, Head(values)) \o EncodeValues(bo, type, Tail(values))

EncodeSlot(bo, type, values) ==
    LET b == EncodeValues(bo, type, values)
    IN  b \o [i \in 1..(4 - Len(b)) |-> 0]

\* the values a reader of the TIFF format finds in the slot
EncodedElems(type, values) ==
    LET vs == IF type = DTASCII /\ values[Len(values)] = 0
              THEN SubSeq(values, 1, Len(values) - 1) ELSE values
    IN  [i \in 1..Len(vs) |-> Word(vs[i])]

\* the sample values tried for each type
InlineValues(type) ==
    CASE type \in {DTByte, DTUndefined} -> {0, 8, 200}
      [] type = DTASCII -> {0, 65, 66}
      [] type = DTSByte -> {0, 8, -56}
      [] type = DTSShort -> {8, 100, 40000}
      [] type = DTSShortS -> {8, -2}
      [] type \in {DTSLong, DTFloat} -> {100, 200, 70000}
      [] OTHER -> {100, -2}

InlineTypes == {DTByte, DTASCII, DTSShort, DTSLong, DTSByte, DTUndefined,
                DTSShortS, DTSLongS, DTFloat}

InlInit ==
    /\ \E bo \in {"II", "MM"} : \E type \in InlineTypes :
       \E count \in 1..(4 \div getTypeSize(type)) :
       \E values \in [1..count -> InlineValues(type)] :
            inlFile = [bo |-> bo, type |-> type, count |-> count, values |-> values]
    /\ inlTag = NoTag
    /\ OthersIdle({"inl"})

InlParse ==
    /\ inlTag = NoTag
    /\ inlTag' = ParseInlineTag(inlFile.bo, inlFile.type, inlFile.count,
                                EncodeSlot(inlFile.bo, inlFile.type, inlFile.values))
    /\ UNCHANGED inlFile
    /\ UNCHANGED notInl

InlNext == InlParse

SpecInline == InlInit /\ [][InlNext]_vars

\* C8: for both byte orders, a tag whose value fits the 4-byte slot is
\* decoded to exactly the value(s) the file encodes there, for every type
\* and every count of total size <= 4 bytes (LONG 100 little-endian, LONG
\* 200 big-endian, one or two SHORTs, up to four BYTEs).
C8_InlineValueDecoded ==
    inlTag # NoTag =>
        inlTag.Value.elems = EncodedElems(inlFile.type, inlFile.values)

\* the part of C8 that holds: a single LONG, in either byte order
C8_SingleLongDecoded ==
    (inlTag # NoTag /\ inlFile.type = DTSLong /\ inlFile.count = 1) =>
        inlTag.Value = [kind |-> "scalar", elems |-> <<Word(inlFile.values[1])>>]

(***************************************************************************)
(* TIFF parser: the header and the chain of IFDs.                          *)
(*                                                                         *)
(* A file is a record: the two magic bytes, the byte order its writer used *)
(* for every other field, the version, the first-IFD offset, its length,   *)
(* and for each IFD offset the entries and the next-IFD offset found       *)
(* there.  The parser sees the file through the bytes the writer made of   *)
(* these fields.                                                           *)
(***************************************************************************)
tiffMagicLE == 18761
tiffMagicBE == 19789
tiffVersion == 42
bufferSize == 16384

TagImageWidth == 256
TagImageLength == 257
TagStripOffsets == 273
TagRowsPerStrip == 278
TagStripByteCounts == 279
TagTileWidth == 322
TagTileLength == 323
TagTileOffsets == 324
TagTileByteCounts == 325
TagGeoKeyDirectory == 34735

\* the offsets at which the files tried hold an IFD, and their lengths
IFDOffsets == {8, 208, 408}
FileLens == {24000, 410}

\* uint32 as a number (the offsets of the files tried are below 2^31)
WordInt(w) == w.hi * 65536 + w.lo

Range(s) == {s[i] : i \in DOMAIN s}

\* image side in pixels of the IFD written at offset o
ImageSize(o) == CASE o = 8 -> 8 [] o = 208 -> 4 [] OTHER -> 2

Entry(id, type, values, at) ==
    [ID |-> id, Type |-> type, Count |-> Len(values), values |-> values, at |-> at]

\* the entries of the IFD at offset o: a tiled or stripped image of n tiles
\* or strips whose offset arrays lie near the IFD or far behind it
IFDEntries(o, layout, n, far) ==
    LET arr == IF far THEN 20000 + o ELSE o + 100
        offs == [i \in 1..n |-> 1000 * i + o]
        cnts == [i \in 1..n |-> (ImageSize(o) * ImageSize(o)) \div n]
        dims == <<Entry(TagImageWidth, DTSLong, <<ImageSize(o)>>, 0),
                  Entry(TagImageLength, DTSLong, <<ImageSize(o)>>, 0)>>
        keys == <<Entry(TagGeoKeyDirectory, DTSShort, <<1, 1, 0, 0>>, arr + 32)>>
    IN  IF layout = "tiled"
        THEN dims \o <<Entry(TagTileWidth, DTSLong, <<ImageSize(o) \div n>>, 0),
                       Entry(TagTileLength, DTSLong, <<ImageSize(o)>>, 0),
                       Entry(TagTileOffsets, DTSLong, offs, arr),
                       Entry(TagTileByteCounts, DTSLong, cnts, arr + 16)>> \o keys
        ELSE dims \o <<Entry(TagRowsPerStrip, DTSLong, <<ImageSize(o) \div n>>, 0),
                       Entry(TagStripOffsets, DTSLong, offs, arr),
                       Entry(TagStripByteCounts, DTSLong, cnts, arr + 16)>> \o keys

\* the bytes of the file
HeaderBytes(f) ==
    f.magic \o EncodeValue(f.bo, DTSShort, f.version) \o EncodeValue(f.bo, DTSLong, f.first)

IFDSize(f, o) == 2 + Len(f.ifd[o].entries) * 12 + 4

IFDReadable(f, o) == o + IFDSize(f, o) <= f.len

EntrySlot(f, e) ==
    IF getTypeSize(e.Type) * e.Count <= 4
    THEN EncodeSlot(f.bo, e.Type, e.values)
    ELSE EncodeValue(f.bo, DTSLong, e.at)

NextBytes(f, o) == EncodeValue(f.bo, DTSLong, f.ifd[o].next)

\* the n bytes at offset off: the values of the entry stored there, when
\* the file is long enough
FileBytes(f, off, n) ==
    LET es == {e \in UNION {Range(f.ifd[o].entries) : o \in IFDOffsets} :
                    e.at = off /\ getTypeSize(e.Type) * e.Count = n}
    IN  IF es # {} /\ off + n <= f.len
        THEN [ok |-> TRUE, bytes |-> EncodeValues(f.bo, (CHOOSE e \in es : TRUE).Type,
                                                  (CHOOSE e \in es : TRUE).values)]
        ELSE [ok |-> FALSE, bytes |-> [i \in 1..n |-> 0]]

\* a plausible slip: every file is read as little-endian
HeaderByteOrderLE(header) == "II"

\* NewTIFFReaderWithFilter: the byte order the magic selects
HeaderByteOrder(header) ==
    LET magic == Uint16("II", <<header[1], header[2]>>)
    IN  IF magic = tiffMagicLE THEN "II"
        ELSE IF magic = tiffMagicBE THEN "MM"
        ELSE "invalid"

\* readTagFromBuffer
readTagFromBuffer(bo, f, e) ==
    [ID |-> e.ID, Type |-> e.Type, Count |-> e.Count,
     Offset |-> Uint32(bo, EntrySlot(f, e)), Value |-> NoValue, IsOffset |-> FALSE]

\* one element of a value stored at an offset
DecodeElem(bo, type, b) ==
    CASE type \in {DTByte, DTASCII} -> Word(b[1])
      [] type = DTSShort -> Word(Uint16(bo, b))
      [] type = DTSShortS -> Word(ToInt16([hi |-> 0, lo |-> Uint16(bo, b)]))
      [] type \in {DTSLong, DTSLongS, DTFloat} -> Uint32(bo, b)
      [] type \in {DTRational, DTSRational} ->
            <<Uint32(bo, SubSeq(b, 1, 4)), Uint32(bo, SubSeq(b, 5, 8))>>
      [] OTHER ->
            IF bo = "II"
            THEN <<Uint32(bo, SubSeq(b, 5, 8)), Uint32(bo, SubSeq(b, 1, 4))>>
            ELSE <<Uint32(bo, SubSeq(b, 1, 4)), Uint32(bo, SubSeq(b, 5, 8))>>

RECURSIVE DecodeElems(_, _, _)
DecodeElems(bo, type, bytes) ==
    IF bytes = <<>> THEN <<>>
    ELSE LET n == getTypeSize(type)
         IN  <<DecodeElem(bo, type, SubSeq(bytes, 1, n))>>
                \o DecodeElems(bo, type, SubSeq(bytes, n + 1, Len(bytes)))

\* readValueFromBuffer: the value at the tag's offset inside the 16K window
readValueFromBuffer(bo, tag, bytes) ==
    CASE tag.Type \in {DTByte, DTSShort, DTSLong, DTSShortS, DTSLongS, DTFloat,
                       DTDouble, DTRational, DTSRational} ->
            [kind |-> IF tag.Count = 1 THEN "scalar" ELSE "slice",
             elems |-> DecodeElems(bo, tag.Type, bytes)]
      [] tag.Type = DTASCII ->
            LET es == DecodeElems(bo, tag.Type, bytes)
            IN  [kind |-> "string",
                 elems |-> IF Len(es) > 0 /\ es[Len(es)] = Word(0)
                           THEN SubSeq(es, 1, Len(es) - 1) ELSE es]
      [] OTHER -> NoValue

\* readValueAtOffset: the value read at the reader's position; a read that
\* fails leaves the zeroes the slice was made with
readValueAtOffset(bo, tag, r) == readValueFromBuffer(bo, tag, r.bytes)

\* a plausible slip: only the strip arrays are left for later
IsStripArrayTag(id) == id \in {TagStripOffsets, TagStripByteCounts}

\* the tags whose arrays are left for the first pixel read
IsLargeArrayTag(id) ==
    id \in {TagStripOffsets, TagStripByteCounts, TagTileOffsets, TagTileByteCounts}

\* readTagValuesMetadataOnly
readTagValuesMetadataOnly(f, bo, Tags, ifdOffset) ==
    LET n == Max(0, Min(bufferSize, f.len - ifdOffset))
    IN  [id \in DOMAIN Tags |->
            LET tag == Tags[id]
                valueSize == getTypeSize(tag.Type) * tag.Count
                tagOffset == WordInt(tag.Offset)
            IN  IF IsLargeArrayTag(id) THEN [tag EXCEPT !.IsOffset = TRUE]
                ELSE IF valueSize <= 4
                THEN [tag EXCEPT !.Value = readInlineValue(tag.Type, tag.Count, tag.Offset),
                                 !.IsOffset = FALSE]
                ELSE IF tagOffset >= ifdOffset /\ tagOffset + valueSize <= ifdOffset + n
                THEN [tag EXCEPT !.Value = readValueFromBuffer(bo, tag,
                                                FileBytes(f, tagOffset, valueSize).bytes),
                                 !.IsOffset = FALSE]
                ELSE [tag EXCEPT !.IsOffset = TRUE]]

\* readTagValuesWithFilter
readTagValuesWithFilter(f, bo, Tags, skipLargeArrays) ==
    [id \in DOMAIN Tags |->
        LET tag == Tags[id]
            valueSize == getTypeSize(tag.Type) * tag.Count
        IN  IF skipLargeArrays /\ IsLargeArrayTag(id) THEN [tag EXCEPT !.IsOffset = TRUE]
            ELSE IF valueSize <= 4
            THEN [tag EXCEPT !.Value = readInlineValue(tag.Type, tag.Count, tag.Offset),
                             !.IsOffset = FALSE]
            ELSE [tag EXCEPT !.Value = readValueAtOffset(bo, tag,
                                            FileBytes(f, WordInt(tag.Offset), valueSize)),
                             !.IsOffset = TRUE]]

\* ReadTagValue: the tags after the load and whether the reader was used
ReadTagValue(f, bo, Tags, tagID) ==
    LET tag == Tags[tagID]
        valueSize == getTypeSize(tag.Type) * tag.Count
    IN  IF tag.Value # NoValue THEN [Tags |-> Tags, io |-> FALSE]
        ELSE IF valueSize <= 4
        THEN [Tags |-> [Tags EXCEPT ![tagID] =
                            [tag EXCEPT !.Value = readInlineValue(tag.Type, tag.Count, tag.Offset),
                                        !.IsOffset = FALSE]],
              io |-> FALSE]
        ELSE [Tags |-> [Tags EXCEPT ![tagID] =
                            [tag EXCEPT !.Value = readValueAtOffset(bo, tag,
                                            FileBytes(f, WordInt(tag.Offset), valueSize))]],
              io |-> TRUE]

\* readIFDWithFilter
readIFDWithFilter(f, bo, offset, metadataOnly) ==
    IF ~IFDReadable(f, offset) THEN [err |-> TRUE]
    ELSE LET es == f.ifd[offset].entries
             Tags == [id \in {es[i].ID : i \in DOMAIN es} |->
                        readTagFromBuffer(bo, f, CHOOSE e \in Range(es) : e.ID = id)]
         IN  [err |-> FALSE,
              ifd |-> [Tags |-> IF metadataOnly
                                THEN readTagValuesMetadataOnly(f, bo, Tags, offset)
                                ELSE readTagValuesWithFilter(f, bo, Tags, TRUE),
                       NextIFD |-> Uint32(bo, NextBytes(f, offset)),
                       ByteOrder |-> bo]]

(***************************************************************************)
(* The parse as a state machine: the header, then one IFD per step of the  *)
(* loop of readIFDsWithFilter.                                             *)
(***************************************************************************)
MaxIFDs == 4

TIFFInit ==
    /\ \E hdr \in {<<<<73, 73>>, "II">>, <<<<77, 77>>, "MM">>, <<<<73, 77>>, "II">>} :
       \E version \in {tiffVersion, tiffVersion + 1} :
       \E first \in IFDOffsets \cup {0} :
       \E next \in [IFDOffsets -> IFDOffsets \cup {0}] :
       \E len \in FileLens :
       \E far \in BOOLEAN :
            tiffFile = [magic |-> hdr[1], bo |-> hdr[2], version |-> version,
                        first |-> first, len |-> len, crs |-> "",
                        ifd |-> [o \in IFDOffsets |->
                                    [entries |-> IFDEntries(o, IF o = 208 THEN "stripped"
                                                               ELSE "tiled", 2, far),
                                     next |-> next[o]]]]
    /\ trMetadataOnly \in BOOLEAN
    /\ trByteOrder = "none" /\ trIfds = <<>> /\ trOffset = 0 /\ trPc = "new"
    /\ OthersIdle({"tiff"})

\* NewTIFFReaderWithFilter up to the call of readIFDsWithFilter
ReadHeader ==
    /\ trPc = "new"
    /\ LET header == HeaderBytes(tiffFile)
           bo == HeaderByteOrder(header)
       IN  IF bo = "invalid"
           THEN /\ trPc' = "failed"
                /\ UNCHANGED <<trByteOrder, trOffset>>
           ELSE IF Uint16(bo, SubSeq(header, 3, 4)) # tiffVersion
           THEN /\ trPc' = "failed"
                /\ trByteOrder' = bo
                /\ UNCHANGED trOffset
           ELSE LET firstIFD == WordInt(Uint32(bo, SubSeq(header, 5, 8)))
                IN  /\ trByteOrder' = bo
                    /\ trOffset' = firstIFD
                    /\ trPc' = IF firstIFD # 0 THEN "walk" ELSE "done"
    /\ UNCHANGED <<tiffFile, trMetadataOnly, trIfds>>
    /\ UNCHANGED notTIFF

\* one turn of the loop of readIFDsWithFilter
ReadIFD ==
    /\ trPc = "walk"
    /\ trOffset # 0
    /\ Len(trIfds) < MaxIFDs
    /\ LET r == readIFDWithFilter(tiffFile, trByteOrder, trOffset, trMetadataOnly)
       IN  IF r.err
           THEN /\ trPc' = "failed"
                /\ UNCHANGED <<trIfds, trOffset>>
           ELSE /\ trIfds' = Append(trIfds, r.ifd)
                /\ trOffset' = WordInt(r.ifd.NextIFD)
                /\ trPc' = IF WordInt(r.ifd.NextIFD) # 0 THEN "walk" ELSE "done"
    /\ UNCHANGED <<tiffFile, trMetadataOnly, trByteOrder>>
    /\ UNCHANGED notTIFF

TIFFNext == ReadHeader \/ ReadIFD

SpecTIFF == TIFFInit /\ [][TIFFNext]_vars

\* the IFD offsets the next-IFD chain of the file links, up to the first zero
RECURSIVE ChainFrom(_, _, _)
ChainFrom(f, o, fuel) ==
    IF o = 0 \/ fuel = 0 THEN <<>>
    ELSE <<o>> \o ChainFrom(f, f.ifd[o].next, fuel - 1)

Chain(f) == ChainFrom(f, f.first, Cardinality(IFDOffsets) + 1)

\* a file the format allows the parser to read to the end
WellFormed(f) ==
    /\ f.magic \in {<<73, 73>>, <<77, 77>>}
    /\ f.version = tiffVersion
    /\ Len(Chain(f)) <= Cardinality(IFDOffsets)
    /\ \A i \in DOMAIN Chain(f) : IFDReadable(f, Chain(f)[i])

\* the IFDs returned are those of the chain, in chain order
IFDsFollowChain ==
    LET chain == Chain(tiffFile)
    IN  /\ Len(trIfds) = Len(chain)
        /\ \A i \in DOMAIN trIfds :
            /\ i <= Len(chain)
            /\ trIfds[i].NextIFD = Word(tiffFile.ifd[chain[i]].next)
            /\ trIfds[i].Tags[TagImageWidth].Value =
                    [kind |-> "scalar", elems |-> <<Word(ImageSize(chain[i]))>>]
            /\ trIfds[i].ByteOrder = tiffFile.bo

\* C7: for a TIFF with II or MM magic and version 42 the parser returns one
\* IFD per link of the next-IFD chain, in chain order from the header's
\* first-IFD offset to the first zero offset, so that ifd_count >= 1, and
\* every IFD carries the header's byte order.
C7_OneIFDPerLink ==
    /\ trPc = "done" => (IFDsFollowChain /\ Len(trIfds) >= 1)
    /\ trPc = "failed" => ~WellFormed(tiffFile)

\* C7 as the code has it: the count is at least 1 when the header's
\* first-IFD offset is not zero; a header whose first-IFD offset is zero
\* parses to zero IFDs.
C7_OneIFDPerLinkOfNonEmptyChain ==
    /\ trPc = "done" =>
            /\ IFDsFollowChain
            /\ tiffFile.first # 0 => Len(trIfds) >= 1
            /\ tiffFile.first = 0 => Len(trIfds) = 0
    /\ trPc = "failed" => ~WellFormed(tiffFile)

C7_Witness ==
    /\ trPc = "done" /\ Len(trIfds) = 3 /\ tiffFile.bo = "MM"
    /\ tiffFile.first = 408
    /\ trIfds[1].ByteOrder = "MM"

\* the parse of the files with a valid header, under a scheduler that lets
\* the loop of readIFDsWithFilter run whenever it can
TIFFWalkInit ==
    /\ TIFFInit
    /\ tiffFile.magic = <<77, 77>> /\ tiffFile.version = tiffVersion
    /\ tiffFile.len = 24000

\* ENABLED <<ReadIFD>>_vars, from the guard of the action (a turn of the loop
\* ends the walk or appends an IFD)
WalkCanTurn == trPc = "walk" /\ trOffset # 0 /\ Len(trIfds) < MaxIFDs

\* weak fairness of both steps; that of ReadIFD, WF_vars(ReadIFD), is stated
\* with its ENABLED written out as WalkCanTurn
SpecTIFFWalk ==
    /\ TIFFWalkInit /\ [][TIFFNext]_vars
    /\ WF_vars(ReadHeader)
    /\ ([]<>(~WalkCanTurn) \/ []<><<ReadIFD>>_vars)

\* the offsets of the IFDs read so far
OffsetsRead ==
    LET read == ChainFrom(tiffFile, tiffFile.first, Len(trIfds))
    IN  {read[i] : i \in DOMAIN read}

\* C28: the parse terminates on every finite input: the walk over the
\* next-IFD offsets ends with a result or an error even when the offsets
\* form a cycle, and no more IFDs are returned than the file has distinct
\* IFD offsets.
C28_ParseTerminates ==
    /\ <>(trPc \in {"done", "failed"})
    /\ [](Len(trIfds) <= Cardinality(IFDOffsets))
    /\ [](trPc = "walk" => trOffset \notin OffsetsRead)

\* what the code does on a chain without a cycle: the walk never comes back
\* to an offset it has read and the parse ends
C28_AcyclicParseTerminates ==
    Len(Chain(tiffFile)) <= Cardinality(IFDOffsets) =>
        /\ <>(trPc \in {"done", "failed"})
        /\ [](Len(trIfds) <= Cardinality(IFDOffsets))
        /\ [](trPc = "walk" => trOffset \notin OffsetsRead)

\* an IFD whose next offset is its own: the loop is at that offset again,
\* with that IFD appended once more at every turn
C28_SelfCycleWalksOn ==
    /\ trPc = "walk" /\ tiffFile.first = 8 /\ tiffFile.ifd[8].next = 8
    /\ trOffset = 8 /\ Len(trIfds) = MaxIFDs

(***************************************************************************)
(* TIFF parser: one tag of each of the 12 types, its value in the 4-byte   *)
(* slot, inside the 16K window read at the IFD, or beyond it.              *)
(***************************************************************************)
TagModelTiepoint == 33922

TgTypes == DTByte..DTDouble
TgCounts == {1, 2, 4, 5}
TgIDs == {TagModelTiepoint, TagTileOffsets}
\* an offset inside the window read at the IFD at 8, and one beyond it
TgPlaces == {100, 20000}

\* the entry as the file holds it: count values of the type (two 32-bit
\* words for each value of an 8-byte type)
TgEntry(id, type, count, at) ==
    LET words == IF getTypeSize(type) = 8 THEN 2 ELSE 1
    IN  [ID |-> id, Type |-> type, Count |-> count,
         values |-> [i \in 1..(count * words) |-> 64 + i], at |-> at]

TgInit ==
    /\ \E bo \in {"II", "MM"} : \E id \in TgIDs : \E type \in TgTypes :
       \E count \in TgCounts : \E at \in TgPlaces :
            tgFile = [bo |-> bo, len |-> 24000,
                      ifd |-> [o \in IFDOffsets |->
                                [entries |-> IF o = 8 THEN <<TgEntry(id, type, count, at)>>
                                             ELSE <<>>,
                                 next |-> 0]]]
    /\ tgMode \in {"metadata", "full"}
    /\ tgTags = <<>> /\ tgPc = "new"
    /\ OthersIdle({"tg"})

\* readIFDWithFilter on the IFD at 8: the tag headers, then the values
TgParse ==
    /\ tgPc = "new"
    /\ LET es == tgFile.ifd[8].entries
           Tags == [id \in {es[i].ID : i \in DOMAIN es} |->
                        readTagFromBuffer(tgFile.bo, tgFile,
                                          CHOOSE e \in Range(es) : e.ID = id)]
       IN  tgTags' = IF tgMode = "metadata"
                     THEN readTagValuesMetadataOnly(tgFile, tgFile.bo, Tags, 8)
                     ELSE readTagValuesWithFilter(tgFile, tgFile.bo, Tags, TRUE)
    /\ tgPc' = "parsed"
    /\ UNCHANGED <<tgFile, tgMode>>
    /\ UNCHANGED notTg

\* ReadTagValue on a tag of the parsed IFD
TgLoad ==
    /\ tgPc = "parsed"
    /\ \E id \in DOMAIN tgTags :
            tgTags' = ReadTagValue(tgFile, tgFile.bo, tgTags, id).Tags
    /\ tgPc' = "loaded"
    /\ UNCHANGED <<tgFile, tgMode>>
    /\ UNCHANGED notTg

TgNext == TgParse \/ TgLoad

SpecTags == TgInit /\ [][TgNext]_vars

\* the entry of the file and the tag made of it
TgFileEntry == tgFile.ifd[8].entries[1]
TgTag == tgTags[TgFileEntry.ID]

\* the TIFF format: the value lies in the slot when it takes at most 4 bytes
TgInSlot == getTypeSize(TgFileEntry.Type) * TgFileEntry.Count <= 4
TgInWindow == ~TgInSlot /\ TgFileEntry.at = 100

\* a tag left for ReadTagValue: flagged, and without a value
Deferred(tag) == tag.IsOffset /\ tag.Value = NoValue

\* C25: after a parse in metadata-only or in full mode, every tag that is
\* not marked deferred has a decoded value, for each of the 12 types and
\* whether the value came from the slot, from the 16K window or from a
\* seek, and its IsOffset flag is false exactly when the value is stored in
\* the slot and true exactly when it is stored at an offset.
C25_TagsDecodedAndFlagged ==
    (tgPc = "parsed" /\ ~Deferred(TgTag)) =>
        /\ TgTag.Value # NoValue
        /\ TgTag.IsOffset = ~TgInSlot

\* what the parse does: a tag that is not left for later has a value unless
\* it is an SBYTE or UNDEFINED array of more than 4 bytes found in the
\* window, and its flag is false whenever the value did not take a seek
C25_TagsDecodedButSByte ==
    (tgPc = "parsed" /\ ~Deferred(TgTag)) =>
        /\ TgTag.Value = NoValue <=>
                /\ TgFileEntry.Type \in {DTSByte, DTUndefined}
                /\ TgInWindow /\ tgMode = "metadata"
        /\ TgTag.IsOffset = (tgMode = "full" /\ ~TgInSlot)

\* an UNDEFINED array of 5 bytes in the window: not flagged, no value
C25_NoValueInWindow ==
    /\ tgPc = "parsed" /\ tgMode = "metadata"
    /\ TgFileEntry.Type = DTUndefined /\ TgFileEntry.Count = 5 /\ TgInWindow
    /\ TgFileEntry.ID = TagModelTiepoint
    /\ ~TgTag.IsOffset /\ TgTag.Value = NoValue

\* two LONGs in the window: decoded, and flagged as if they lay in the slot
C25_WindowValueFlaggedInline ==
    /\ tgPc = "parsed" /\ tgMode = "metadata"
    /\ TgFileEntry.Type = DTSLong /\ TgFileEntry.Count = 2 /\ TgInWindow
    /\ TgFileEntry.ID = TagModelTiepoint
    /\ ~TgTag.IsOffset /\ TgTag.Value.elems = <<Word(65), Word(66)>>

\* ReadTagValue does not bring the value of an SBYTE array either
C25_NoValueAfterLoad ==
    /\ tgPc = "loaded"
    /\ TgFileEntry.Type = DTSByte /\ TgFileEntry.Count = 5
    /\ TgTag.Value = NoValue
(***************************************************************************)
(* COG: an opened file, its metadata and its pixel reads.                  *)
(*                                                                         *)
(* Go's int is kept as a two's complement number of IntBits bits, so that  *)
(* its overflow is there at a size TLC can enumerate.  Pixel coordinates   *)
(* that the code holds as float64 are kept as exact fractions: the image   *)
(* sizes and extents tried are powers of two, for which the float64        *)
(* operations of the code are exact.                                       *)
(***************************************************************************)
IntBits == 8
MaxInt == 2^(IntBits - 1) - 1
MinInt == -(2^(IntBits - 1))

\* the int that an int operation of mathematical result v leaves
WrapInt(v) == ((v - MinInt) % 2^IntBits) + MinInt
AddInt(a, b) == WrapInt(a + b)

\* float64(v) of an int: the largest int is not a float64 and rounds up
Float64(v) == IF v = MaxInt THEN MaxInt + 1 ELSE v

\* int(f) of a float64 holding the whole number f: what an out-of-range
\* conversion gives depends on the build, wrap is the value it gives
IntOfFloat(f, wrap) == IF MinInt <= f /\ f <= MaxInt THEN f ELSE wrap

\* math.Ceil and the truncation of a / b, for b > 0
CeilDiv(a, b) == -((-a) \div b)

\* COG.getBytesPerSample
getBytesPerSample(dt) ==
    CASE dt \in {DTByte, DTASCII, DTSByte, DTUndefined} -> 1
      [] dt \in {DTSShort, DTSShortS} -> 2
      [] dt \in {DTSLong, DTSLongS, DTFloat} -> 4
      [] dt \in {DTRational, DTSRational, DTDouble} -> 8
      [] OTHER -> 1

\* the uint32 or uint16 value of a tag, as readMetadata takes it
TagInt(Tags, id) ==
    IF id \notin DOMAIN Tags THEN 0
    ELSE LET t == Tags[id]
         IN  IF t.Type \in {DTSLong, DTSShort} /\ Len(t.Value.elems) > 0
             THEN WordInt(t.Value.elems[1]) ELSE 0

\* the side of the geographic square every image of the files tried covers
GeoExtent == 8

\* GeoTIFFReader.readMetadata of the IFD written at offset o: the sizes
\* come from the parsed tags; the tie point maps pixel (0,0) to the top left
\* corner of the square and the pixel scale makes the image cover it
readMetadata(f, o, ifd) ==
    [Width |-> TagInt(ifd.Tags, TagImageWidth),
     Height |-> TagInt(ifd.Tags, TagImageLength),
     BandCount |-> 1, DataType |-> DTByte, CRS |-> f.crs,
     PixelScale |-> GeoExtent \div ImageSize(o),
     TieGeoX |-> 0, TieGeoY |-> GeoExtent]

\* GeoTIFFReader.pixelToGeo with a tie point at pixel (0,0)
pixelToGeo(meta, pixelX, pixelY) ==
    IF meta.PixelScale # 0
    THEN <<meta.TieGeoX + pixelX * meta.PixelScale, meta.TieGeoY - pixelY * meta.PixelScale>>
    ELSE <<0, 0>>

\* GeoTIFFReader.Bounds
Bounds(meta) ==
    IF meta.Width = 0 \/ meta.Height = 0
    THEN [MinX |-> 0, MinY |-> 0, MaxX |-> 0, MaxY |-> 0]
    ELSE LET tl == pixelToGeo(meta, 0, 0)
             tr == pixelToGeo(meta, meta.Width, 0)
             bl == pixelToGeo(meta, 0, meta.Height)
             br == pixelToGeo(meta, meta.Width, meta.Height)
         IN  [MinX |-> Min(Min(tl[1], tr[1]), Min(bl[1], br[1])),
              MaxX |-> Max(Max(tl[1], tr[1]), Max(bl[1], br[1])),
              MinY |-> Min(Min(tl[2], tr[2]), Min(bl[2], br[2])),
              MaxY |-> Max(Max(tl[2], tr[2]), Max(bl[2], br[2]))]

\* COG.geoToPixelBounds: each pixel bound as the numerator of a fraction
\* over geoWidth (dX) or geoHeight (dY)
geoToPixelBounds(bound, meta) ==
    LET imgBounds == Bounds(meta)
        geoWidth == imgBounds.MaxX - imgBounds.MinX
        geoHeight == imgBounds.MaxY - imgBounds.MinY
    IN  IF geoWidth = 0 \/ geoHeight = 0
        THEN [MinX |-> 0, MinY |-> 0, MaxX |-> 0, MaxY |-> 0, dX |-> 1, dY |-> 1]
        ELSE [MinX |-> (bound.MinX - imgBounds.MinX) * meta.Width,
              MaxX |-> (bound.MaxX - imgBounds.MinX) * meta.Width,
              MinY |-> (imgBounds.MaxY - bound.MaxY) * meta.Height,
              MaxY |-> (imgBounds.MaxY - bound.MinY) * meta.Height,
              dX |-> geoWidth, dY |-> geoHeight]

\* ReadRegion and ReadTile: the pixel rectangle read for a geographic bound
RegionRect(bound, meta) ==
    LET pb == geoToPixelBounds(bound, meta)
        MinX == Max(0, Min((meta.Width - 1) * pb.dX, pb.MinX))
        MaxX == Max(0, Min((meta.Width - 1) * pb.dX, pb.MaxX))
        MinY == Max(0, Min((meta.Height - 1) * pb.dY, pb.MinY))
        MaxY == Max(0, Min((meta.Height - 1) * pb.dY, pb.MaxY))
    IN  [X |-> MinX \div pb.dX, Y |-> MinY \div pb.dY,
         Width |-> CeilDiv(MaxX - MinX, pb.dX),
         Height |-> CeilDiv(MaxY - MinY, pb.dY)]

\* the lazy load of readTiledRegion and readStrippedRegion
LazyLoad(f, bo, Tags, tagID) ==
    IF Tags[tagID].Value = NoValue /\ Tags[tagID].IsOffset
    THEN ReadTagValue(f, bo, Tags, tagID)
    ELSE [Tags |-> Tags, io |-> FALSE]

\* GetIFD
GetIFD(ifds, index) == ifds[index + 1]

\* how the reading of the tiles or strips of a rectangle at (x, y) ends.
\* Inside the image the tiles or strips are read ("none") or a read fails.
\* Outside it a tiled read finds no tile at or beyond the last index and
\* returns the zeroed output ("empty"); a negative tile index, and the row
\* copy of a stripped read, end in an index out of range ("panic").
Outcome(tiled, meta, x, y, outcome) ==
    IF 0 <= x /\ x < meta.Width /\ 0 <= y /\ y < meta.Height THEN outcome
    ELSE IF tiled /\ x >= 0 /\ y >= 0 THEN "empty"
    ELSE "panic"

\* readPixelRegion: the deferred tags it loads, its use of the reader and
\* its error.  The bytes it returns are those of the tile engine below.
readPixelRegion(f, bo, ifds, meta, ifdIndex, r, outcome) ==
    LET ifd == GetIFD(ifds, ifdIndex)
        ids == DOMAIN ifd.Tags
        tiled == {TagTileOffsets, TagTileByteCounts} \subseteq ids
        stripped == {TagStripOffsets, TagStripByteCounts} \subseteq ids
        toLoad == IF tiled THEN <<TagTileOffsets, TagTileByteCounts>>
                  ELSE <<TagStripOffsets, TagStripByteCounts>>
    IN  IF ~tiled /\ ~stripped
        THEN [Tags |-> ifd.Tags, io |-> FALSE, err |-> "image is neither tiled nor stripped"]
        ELSE LET l1 == LazyLoad(f, bo, ifd.Tags, toLoad[1])
                 l2 == LazyLoad(f, bo, l1.Tags, toLoad[2])
                 end == Outcome(tiled, meta, r.X, r.Y, outcome)
             IN  [Tags |-> l2.Tags,
                  io |-> l1.io \/ l2.io \/ end \in {"none", "read failed"} \/ ~tiled,
                  err |-> IF end = "empty" THEN "none" ELSE end]

\* the tags of the offset arrays
OffsetArrayTags == {TagStripOffsets, TagStripByteCounts, TagTileOffsets, TagTileByteCounts}

\* the offset arrays that hold a value in ifds2 and none in ifds1
Loaded(ifds1, ifds2) ==
    {p \in (0..(Len(ifds1) - 1)) \X OffsetArrayTags :
        /\ p[2] \in DOMAIN ifds1[p[1] + 1].Tags
        /\ ifds1[p[1] + 1].Tags[p[2]].Value = NoValue
        /\ ifds2[p[1] + 1].Tags[p[2]].Value # NoValue}

\* the result of a call that ends before any pixel read
Refused(ifds, op, arg, err) ==
    [ifds |-> ifds,
     last |-> [op |-> op, arg |-> arg, ifd |-> -1, err |-> err,
               io |-> FALSE, loads |-> {}, Width |-> 0, Height |-> 0]]

\* the result of a call that reads the rectangle r of the IFD ifdIndex
PixelRead(f, bo, ifds, metadata, op, arg, ifdIndex, r, outcome) ==
    LET p == readPixelRegion(f, bo, ifds, metadata[ifdIndex + 1], ifdIndex, r, outcome)
        ifds2 == [ifds EXCEPT ![ifdIndex + 1].Tags = p.Tags]
    IN  [ifds |-> ifds2,
         last |-> [op |-> op, arg |-> arg, ifd |-> ifdIndex, err |-> p.err,
                   io |-> p.io, loads |-> Loaded(ifds, ifds2),
                   Width |-> IF p.err = "none" THEN r.Width ELSE 0,
                   Height |-> IF p.err = "none" THEN r.Height ELSE 0]]

\* COG.ReadRegion
ReadRegion(f, bo, ifds, metadata, bound, overview, outcome) ==
    IF Len(metadata) = 0 THEN Refused(ifds, "ReadRegion", bound, "no image data available")
    ELSE IF overview < 0 \/ overview >= Len(metadata)
    THEN Refused(ifds, "ReadRegion", bound, "invalid overview level")
    ELSE LET r == RegionRect(bound, metadata[overview + 1])
         IN  IF r.Width <= 0 \/ r.Height <= 0
             THEN Refused(ifds, "ReadRegion", bound, "invalid region dimensions")
             ELSE PixelRead(f, bo, ifds, metadata, "ReadRegion", bound, overview, r, outcome)

\* COG.selectOverview.  minDataTransfer starts at math.MaxFloat64, which is
\* kept as -1.  For the sizes tried (no image wider or higher than 24, no
\* overview larger than the main image) the float64 products and ceilings
\* of the code equal the exact ones.
RECURSIVE selectLoop(_, _, _, _, _)
selectLoop(metadata, rect, i, bestOverview, minDataTransfer) ==
    IF i >= Len(metadata) THEN bestOverview
    ELSE LET meta == metadata[i + 1]
             mainMeta == metadata[1]
             overviewWidth == CeilDiv(rect.Width * meta.Width, mainMeta.Width)
             overviewHeight == CeilDiv(rect.Height * meta.Height, mainMeta.Height)
             bytesPerPixel == getBytesPerSample(meta.DataType) * meta.BandCount
             dataTransfer == overviewWidth * overviewHeight * bytesPerPixel
         IN  IF (minDataTransfer = -1 \/ dataTransfer < minDataTransfer)
                /\ (4 * meta.Width * meta.Height >= mainMeta.Width * mainMeta.Height \/ i = 0)
             THEN selectLoop(metadata, rect, i + 1, i, dataTransfer)
             ELSE selectLoop(metadata, rect, i + 1, bestOverview, minDataTransfer)

\* a plausible slip: the hundredth of the main area taken as a real number
SmallWindowReal(windowArea, mainArea) == 100 * windowArea < mainArea

\* windowArea < mainArea/100, an integer division
SmallWindow(windowArea, mainArea) == windowArea < mainArea \div 100

selectOverview(metadata, rect) ==
    IF Len(metadata) = 0 THEN 0
    ELSE LET mainMeta == metadata[1]
             windowArea == rect.Width * rect.Height
             mainArea == mainMeta.Width * mainMeta.Height
         IN  IF SmallWindow(windowArea, mainArea) THEN 0
             ELSE selectLoop(metadata, rect, 0, 0, -1)

\* the validation of ReadWindow
ValidateWindow(rect, mainMeta) ==
    IF rect.X < 0 \/ rect.Y < 0 THEN "rectangle coordinates must be non-negative"
    ELSE IF rect.Width <= 0 \/ rect.Height <= 0 THEN "rectangle dimensions must be positive"
    ELSE IF AddInt(rect.X, rect.Width) > mainMeta.Width
    THEN "rectangle extends beyond image width"
    ELSE IF AddInt(rect.Y, rect.Height) > mainMeta.Height
    THEN "rectangle extends beyond image height"
    ELSE "none"

\* COG.ReadWindow
ReadWindow(f, bo, ifds, metadata, rect, wrap, outcome) ==
    IF Len(metadata) = 0 THEN Refused(ifds, "ReadWindow", rect, "no image data available")
    ELSE LET invalid == ValidateWindow(rect, metadata[1])
         IN  IF invalid # "none" THEN Refused(ifds, "ReadWindow", rect, invalid)
    ELSE LET mainMeta == metadata[1]
             overviewIndex == selectOverview(metadata, rect)
             meta == metadata[overviewIndex + 1]
             overviewX == IntOfFloat((Float64(rect.X) * meta.Width) \div mainMeta.Width, wrap)
             overviewY == IntOfFloat((Float64(rect.Y) * meta.Height) \div mainMeta.Height, wrap)
             w0 == IntOfFloat(CeilDiv(Float64(rect.Width) * meta.Width, mainMeta.Width), wrap)
             h0 == IntOfFloat(CeilDiv(Float64(rect.Height) * meta.Height, mainMeta.Height), wrap)
             overviewWidth == IF AddInt(overviewX, w0) > meta.Width
                              THEN WrapInt(meta.Width - overviewX) ELSE w0
             overviewHeight == IF AddInt(overviewY, h0) > meta.Height
                               THEN WrapInt(meta.Height - overviewY) ELSE h0
         IN  IF overviewWidth <= 0 \/ overviewHeight <= 0
             THEN Refused(ifds, "ReadWindow", rect,
                          "invalid window dimensions after scaling to overview")
             ELSE PixelRead(f, bo, ifds, metadata, "ReadWindow", rect, overviewIndex,
                            [X |-> overviewX, Y |-> overviewY,
                             Width |-> overviewWidth, Height |-> overviewHeight],
                            outcome)

\* a plausible slip: ReadTile takes any CRS
AnyCRS(crs) == TRUE

\* ReadTile: crs != "EPSG:4326" && crs != "EPSG:3857" is refused
SupportedCRS(crs) == crs \in {"EPSG:4326", "EPSG:3857"}

\* COG.ReadTile: the tile is given by the geographic bound it converts to
ReadTile(f, bo, ifds, metadata, bound, outcome) ==
    IF Len(metadata) = 0 THEN Refused(ifds, "ReadTile", bound, "no image data available")
    ELSE IF ~SupportedCRS(metadata[1].CRS)
    THEN Refused(ifds, "ReadTile", bound, "unsupported CRS")
    ELSE LET r == RegionRect(bound, metadata[1])
         IN  IF r.Width <= 0 \/ r.Height <= 0
             THEN Refused(ifds, "ReadTile", bound, "invalid tile dimensions after projection")
             ELSE PixelRead(f, bo, ifds, metadata, "ReadTile", bound, 0, r, outcome)

(***************************************************************************)
(* The opened COG as a state machine.                                      *)
(***************************************************************************)
\* the IFDs Open or Read parse from a file whose chain is sound
RECURSIVE ParseChain(_, _, _, _)
ParseChain(f, bo, chain, metadataOnly) ==
    IF chain = <<>> THEN <<>>
    ELSE <<readIFDWithFilter(f, bo, Head(chain), metadataOnly).ifd>>
            \o ParseChain(f, bo, Tail(chain), metadataOnly)

\* the geographic bounds and the pixel rectangles asked for
GeoBounds ==
    {[MinX |-> b[1], MinY |-> b[2], MaxX |-> b[3], MaxY |-> b[4]] :
        b \in {<<0, 0, 8, 8>>, <<2, 2, 6, 6>>, <<8, 8, 12, 12>>}}

Rectangles ==
    {[X |-> r[1], Y |-> r[2], Width |-> r[3], Height |-> r[4]] :
        r \in {<<0, 0, 1, 1>>, <<0, 0, 8, 8>>, <<1, 1, 7, 7>>,
               <<-1, 0, 1, 1>>, <<0, -1, 1, 1>>, <<0, 0, 0, 1>>, <<0, 0, 1, -1>>,
               <<1, 0, 8, 1>>, <<0, 1, 1, 8>>, <<MaxInt, 0, 1, 1>>}}

\* the files opened: a little-endian file of three IFDs (tiled, stripped,
\* tiled) in EPSG:4326, a big-endian file of one stripped IFD without CRS
\* and a little-endian file of one tiled IFD in a UTM zone
COGFiles ==
    {<<"II", 3, "tiled", "EPSG:4326">>, <<"MM", 1, "stripped", "">>,
     <<"II", 1, "tiled", "EPSG:32633">>}

\* Open (metadata-only parse) or Read (full parse) of a file
COGInit ==
    /\ \E v \in COGFiles :
       \E arrays \in {<<1, FALSE>>, <<2, FALSE>>, <<2, TRUE>>} :
            tiffFile = [magic |-> IF v[1] = "II" THEN <<73, 73>> ELSE <<77, 77>>,
                        bo |-> v[1], version |-> tiffVersion, first |-> 8,
                        len |-> 24000, crs |-> v[4],
                        ifd |-> [o \in IFDOffsets |->
                                    [entries |-> IFDEntries(o,
                                                    IF o = 208 THEN "stripped" ELSE v[3],
                                                    arrays[1], arrays[2]),
                                     next |-> CASE o = 8 /\ v[2] > 1 -> 208
                                                [] o = 208 /\ v[2] > 2 -> 408
                                                [] OTHER -> 0]]]
    /\ trMetadataOnly \in BOOLEAN
    /\ trByteOrder = tiffFile.bo
    /\ trIfds = ParseChain(tiffFile, trByteOrder, Chain(tiffFile), trMetadataOnly)
    /\ trOffset = 0
    /\ trPc = "done"
    /\ cogMetadata = [i \in DOMAIN trIfds |->
                        readMetadata(tiffFile, Chain(tiffFile)[i], trIfds[i])]
    /\ cogSelected = {}
    /\ cogLast = [op |-> "open"]
    /\ OthersIdle({"tiff", "cog"})

COGDone(r) ==
    /\ trIfds' = r.ifds
    /\ cogLast' = r.last
    /\ cogSelected' = IF r.last.ifd >= 0 THEN cogSelected \cup {r.last.ifd} ELSE cogSelected
    /\ UNCHANGED <<tiffFile, trMetadataOnly, trByteOrder, trOffset, trPc, cogMetadata>>
    /\ UNCHANGED notCOG

\* Width, Height, BandCount, CRS, OverviewCount, Bounds
COGQuery ==
    /\ \E q \in {"Width", "OverviewCount"} :
        cogLast' = [op |-> q, arg |-> <<>>, ifd |-> -1, err |-> "none", io |-> FALSE,
                    loads |-> {},
                    Width |-> IF Len(cogMetadata) = 0 THEN 0 ELSE cogMetadata[1].Width,
                    Height |-> IF Len(cogMetadata) = 0 THEN 0 ELSE cogMetadata[1].Height]
    /\ UNCHANGED <<tiffVars, cogMetadata, cogSelected>>
    /\ UNCHANGED notCOG

COGReadRegion ==
    /\ \E bound \in GeoBounds : \E overview \in -1..Len(cogMetadata) :
       \E outcome \in {"none", "read failed"} :
            COGDone(ReadRegion(tiffFile, trByteOrder, trIfds, cogMetadata,
                               bound, overview, outcome))

COGReadWindow ==
    /\ \E rect \in Rectangles : \E wrap \in {MinInt, MaxInt} :
       \E outcome \in {"none", "read failed"} :
            COGDone(ReadWindow(tiffFile, trByteOrder, trIfds, cogMetadata,
                               rect, wrap, outcome))

COGReadTile ==
    /\ \E bound \in GeoBounds : \E outcome \in {"none", "read failed"} :
            COGDone(ReadTile(tiffFile, trByteOrder, trIfds, cogMetadata, bound, outcome))

COGNext == COGQuery \/ COGReadRegion \/ COGReadWindow \/ COGReadTile

SpecCOG == COGInit /\ [][COGNext]_vars

\* C4: after open the tags 273, 279, 324 and 325 of every IFD are marked
\* deferred and hold no value, and those of an IFD stay so, whatever the
\* metadata queries and pixel reads, until a pixel read selects that IFD:
\* a pixel read never loads the arrays of an IFD other than its own.
C4_OffsetArraysDeferred ==
    /\ \A i \in DOMAIN trIfds : \A id \in DOMAIN trIfds[i].Tags \cap OffsetArrayTags :
        (i - 1) \notin cogSelected =>
            /\ trIfds[i].Tags[id].Value = NoValue
            /\ trIfds[i].Tags[id].IsOffset
    /\ cogLast.op \notin {"none", "open"} =>
            \A p \in cogLast.loads : p[1] = cogLast.ifd

C4_Witness ==
    /\ Len(trIfds) = 3
    /\ cogSelected = {1}
    /\ cogLast.op = "ReadWindow" /\ cogLast.ifd = 1 /\ cogLast.err = "none"
    /\ cogLast.loads = {<<1, TagStripOffsets>>, <<1, TagStripByteCounts>>}
    /\ trIfds[2].Tags[TagStripOffsets].Value.kind = "slice"
    /\ trIfds[1].Tags[TagTileOffsets].Value = NoValue

\* the rectangles ReadWindow has to refuse
OutsideImage(rect, mainMeta) ==
    \/ rect.X < 0 \/ rect.Y < 0
    \/ rect.Width <= 0 \/ rect.Height <= 0
    \/ rect.X + rect.Width > mainMeta.Width
    \/ rect.Y + rect.Height > mainMeta.Height

ValidationErrors ==
    {"rectangle coordinates must be non-negative", "rectangle dimensions must be positive",
     "rectangle extends beyond image width", "rectangle extends beyond image height"}

\* C10: ReadWindow fails, without any seek or read on the reader and
\* without loading any deferred tag, for a rectangle with a negative X or
\* Y, a non-positive width or height, or reaching beyond the width or the
\* height of the main image; every other rectangle passes validation.
C10_WindowValidated ==
    cogLast.op = "ReadWindow" =>
        IF OutsideImage(cogLast.arg, cogMetadata[1])
        THEN cogLast.err # "none" /\ ~cogLast.io /\ cogLast.loads = {}
        ELSE cogLast.err \notin ValidationErrors

\* the part of C10 that holds: the rectangles whose sums do not overflow
C10_WindowValidatedWithoutOverflow ==
    (cogLast.op = "ReadWindow" /\ cogLast.arg.X < MaxInt /\ cogLast.arg.Y < MaxInt) =>
        IF OutsideImage(cogLast.arg, cogMetadata[1])
        THEN cogLast.err \in ValidationErrors /\ ~cogLast.io /\ cogLast.loads = {}
        ELSE cogLast.err \notin ValidationErrors

\* C11: ReadTile on an image whose CRS is neither EPSG:4326 nor EPSG:3857
\* (the empty CRS included) fails with the unsupported CRS error before any
\* seek or read and without loading a deferred tag, and ReadRegion on the
\* same image is never refused for its CRS.
C11_TileNeedsSupportedCRS ==
    (cogMetadata # <<>> /\ cogMetadata[1].CRS \notin {"EPSG:4326", "EPSG:3857"}) =>
        /\ cogLast.op = "ReadTile" =>
                /\ cogLast.err = "unsupported CRS"
                /\ ~cogLast.io /\ cogLast.loads = {} /\ cogLast.ifd = -1
        /\ cogLast.op = "ReadRegion" => cogLast.err # "unsupported CRS"

\* ReadTile is refused on the image without CRS after a ReadRegion of the
\* same image has read IFD 0
C11_Witness ==
    /\ cogMetadata # <<>> /\ cogMetadata[1].CRS = ""
    /\ cogLast.op = "ReadTile" /\ cogLast.err = "unsupported CRS"
    /\ cogSelected = {0}
    /\ trIfds[1].Tags[TagStripOffsets].Value # NoValue

(***************************************************************************)
(* COG.selectOverview on its own: every list of up to MaxOverviewIFDs IFDs *)
(* drawn from IFDKinds, and every window inside the main image.  For these *)
(* sizes the float64 scale factors, products and ceilings of the code      *)
(* equal the exact ones, which is how selectLoop computes them.            *)
(***************************************************************************)
MaxOverviewIFDs == 3

\* width, height, data type and band count of the IFDs tried
IFDKinds ==
    {<<16, 15, DTByte, 1>>, <<8, 8, DTByte, 1>>, <<4, 4, DTByte, 1>>,
     <<12, 10, DTSShort, 3>>, <<20, 20, DTByte, 1>>}

OvMeta(k) == [Width |-> k[1], Height |-> k[2], DataType |-> k[3], BandCount |-> k[4]]

\* the windows ReadWindow's validation lets through to selectOverview
OvWindows(mainMeta) ==
    {rect \in [X : {0, 1}, Y : {0, 1}, Width : 1..mainMeta.Width, Height : 1..mainMeta.Height] :
        rect.X = rect.Y /\ ValidateWindow(rect, mainMeta) = "none"}

OvInit ==
    /\ \E n \in 1..MaxOverviewIFDs : \E ks \in [1..n -> IFDKinds] :
            ovMetadata = [i \in 1..n |-> OvMeta(ks[i])]
    /\ ovRect \in OvWindows(ovMetadata[1])
    /\ ovIndex = -1
    /\ OthersIdle({"ov"})

\* ReadWindow's call of selectOverview on the window it validated
SelectOverview ==
    /\ ovIndex = -1
    /\ ovIndex' = selectOverview(ovMetadata, ovRect)
    /\ UNCHANGED <<ovMetadata, ovRect>>
    /\ UNCHANGED notOv

OvNext == SelectOverview

SpecOverview == OvInit /\ [][OvNext]_vars

\* the area of IFD i (from 0) and what reading the window from it costs
OvArea(i) == ovMetadata[i + 1].Width * ovMetadata[i + 1].Height

OvCost(i) ==
    LET m == ovMetadata[i + 1]
        scaledW == CeilDiv(ovRect.Width * m.Width, ovMetadata[1].Width)
        scaledH == CeilDiv(ovRect.Height * m.Height, ovMetadata[1].Height)
    IN  scaledW * scaledH * getBytesPerSample(m.DataType) * m.BandCount

\* IFD 0 and the IFDs of at least a quarter of the main area
OvEligible == {i \in 0..(Len(ovMetadata) - 1) : i = 0 \/ 4 * OvArea(i) >= OvArea(0)}

\* the eligible IFD of least cost, the lowest index on ties
OvCheapest(i) ==
    /\ i \in OvEligible
    /\ \A j \in OvEligible : OvCost(i) < OvCost(j) \/ (OvCost(i) = OvCost(j) /\ i <= j)

RegionSizes == {<<4, 4>>, <<2, 4>>, <<4, 2>>}

\* the geographic size of a pixel of the images tried
RegionPixelScale == 2

\* the byte of pixel (x, y) of an image of width w: its index in the file
PixelByte(w, x, y) == y * w + x

\* the image as Open finds it: the metadata of readMetadata and the strips
RegionImage(w, h, rowsPerStrip, photometric) ==
    [meta |-> [Width |-> w, Height |-> h, BandCount |-> 1, DataType |-> DTByte,
               PhotometricInterpretation |-> photometric,
               PixelScale |-> RegionPixelScale,
               TieGeoX |-> 0, TieGeoY |-> h * RegionPixelScale],
     rowsPerStrip |-> rowsPerStrip,
     strips |-> [s \in 1..CeilDiv(h, rowsPerStrip) |->
                    [k \in 1..(Min(rowsPerStrip, h - (s - 1) * rowsPerStrip) * w) |->
                        PixelByte(w, (k - 1) % w, (s - 1) * rowsPerStrip + (k - 1) \div w)]]]

\* readStrippedRegion with compression None: every strip of the rows asked
\* for is read into stripCache, then each row is copied if it lies inside
\* its strip and inside the output
readStrippedRegion(img, x, y, width, height) ==
    LET meta == img.meta
        rowsPerStrip == img.rowsPerStrip
        bytesPerPixel == meta.BandCount * getBytesPerSample(meta.DataType)
        bytesPerRow == meta.Width * bytesPerPixel
        startStripIndex == y \div rowsPerStrip
        endStripIndex == (y + height - 1) \div rowsPerStrip
        stripCache == {s \in startStripIndex..endStripIndex : s < Len(img.strips)}
        outLen == width * height * bytesPerPixel
        rowBytes == width * bytesPerPixel
    IN  [k \in 1..outLen |->
            LET row == y + ((k - 1) \div rowBytes)
                stripIndex == row \div rowsPerStrip
                stripRow == row - stripIndex * rowsPerStrip
                srcOffset == stripRow * bytesPerRow + x * bytesPerPixel
                dstOffset == (row - y) * rowBytes
            IN  IF /\ stripIndex \in stripCache
                   /\ srcOffset + rowBytes <= Len(img.strips[stripIndex + 1])
                   /\ dstOffset + rowBytes <= outLen
                THEN img.strips[stripIndex + 1][srcOffset + ((k - 1) % rowBytes) + 1]
                ELSE 0]

\* decodeBytesToFlat for samples of one unsigned byte
decodeBytesToFlat(data, width, height, bands, dataType, photometricInterpretation) ==
    LET bytesPerSample == getBytesPerSample(dataType)
        bytesPerPixel == bands * bytesPerSample
        maxValue == 255
    IN  [i \in 1..(width * height * bands) |->
            LET pixel == (i - 1) \div bands
                b == (i - 1) % bands
                sampleOffset == pixel * bytesPerPixel + b * bytesPerSample
                value == IF sampleOffset + bytesPerSample > Len(data) THEN 0
                         ELSE data[sampleOffset + 1]
            IN  IF photometricInterpretation = 0 /\ bands = 1
                THEN maxValue - value ELSE value]

\* RasterData.At
At(r, band, x, y) ==
    IF band < 0 \/ band >= r.Bands \/ x < 0 \/ x >= r.Width \/ y < 0 \/ y >= r.Height
    THEN 0
    ELSE r.Data[y * r.Width * r.Bands + x * r.Bands + band + 1]

\* COG.ReadRegion on the one image of the file
ReadRegionData(img, bound, overview) ==
    IF overview < 0 \/ overview >= 1 THEN [err |-> "invalid overview level"]
    ELSE LET meta == img.meta
             r == RegionRect(bound, meta)
         IN  IF r.Width <= 0 \/ r.Height <= 0 THEN [err |-> "invalid region dimensions"]
             ELSE LET data == readStrippedRegion(img, r.X, r.Y, r.Width, r.Height)
                  IN  [err |-> "none",
                       Data |-> decodeBytesToFlat(data, r.Width, r.Height, meta.BandCount,
                                                  meta.DataType, meta.PhotometricInterpretation),
                       Width |-> r.Width, Height |-> r.Height, Bands |-> meta.BandCount]

\* the corners of the bounds asked for, in geographic units: on pixel
\* edges and inside pixels
RegionCorners == {0, 1, 4, 7, 8}

RegionBounds(meta) ==
    LET xs == {c \in RegionCorners : c <= meta.Width * RegionPixelScale}
        ys == {c \in RegionCorners : c <= meta.Height * RegionPixelScale}
    IN  {b \in [MinX : xs, MaxX : xs, MinY : ys, MaxY : ys] :
            b.MinX < b.MaxX /\ b.MinY < b.MaxY}

RgInit ==
    /\ \E s \in RegionSizes, rowsPerStrip \in {1, 3, 4}, photometric \in {0, 1} :
            rgImage = RegionImage(s[1], s[2], rowsPerStrip, photometric)
    /\ rgCall = <<>>
    /\ rgData = [err |-> "not called"]
    /\ OthersIdle({"rg"})

RgReadRegion ==
    /\ \E bound \in RegionBounds(rgImage.meta), overview \in {0, 1} :
            /\ rgCall' = [bound |-> bound, overview |-> overview]
            /\ rgData' = ReadRegionData(rgImage, bound, overview)
    /\ UNCHANGED rgImage
    /\ UNCHANGED notRg

RgNext == RgReadRegion

SpecRegion == RgInit /\ [][RgNext]_vars

\* the last call asked for the whole image at overview 0
FullBoundsCall ==
    /\ rgCall # <<>>
    /\ rgCall.overview = 0
    /\ rgCall.bound = Bounds(rgImage.meta)

\* C6: ReadRegion with the image's full bounds at overview 0 returns a
\* RasterData of the image's full width and height and one band, in which
\* At(0,x,y) is the image's pixel (x,y): y*4+x for the 4x4 image whose
\* strip holds the bytes 0..15.
C6_FullBoundsFullImage ==
    (FullBoundsCall /\ rgImage.meta.PhotometricInterpretation # 0) =>
        /\ rgData.err = "none"
        /\ rgData.Width = rgImage.meta.Width
        /\ rgData.Height = rgImage.meta.Height
        /\ rgData.Bands = 1
        /\ \A x \in 0..(rgImage.meta.Width - 1), y \in 0..(rgImage.meta.Height - 1) :
                At(rgData, 0, x, y) = PixelByte(rgImage.meta.Width, x, y)

\* what the code returns for the full bounds: the image without its last
\* column and its last row, the pixels it holds being those of the image
C6_FullBoundsDropLastColumnAndRow ==
    (FullBoundsCall /\ rgImage.meta.PhotometricInterpretation # 0) =>
        /\ rgData.err = "none"
        /\ rgData.Width = rgImage.meta.Width - 1
        /\ rgData.Height = rgImage.meta.Height - 1
        /\ rgData.Bands = 1
        /\ \A x \in 0..(rgData.Width - 1), y \in 0..(rgData.Height - 1) :
                At(rgData, 0, x, y) = PixelByte(rgImage.meta.Width, x, y)

\* the 4x4 image in one strip, read over its full bounds, comes back 3x3
C6_ThreeByThree ==
    /\ FullBoundsCall
    /\ rgImage.meta.Width = 4 /\ rgImage.meta.Height = 4 /\ rgImage.rowsPerStrip = 4
    /\ rgImage.meta.PhotometricInterpretation = 1
    /\ rgData.err = "none" /\ rgData.Width = 3 /\ rgData.Height = 3
    /\ At(rgData, 0, 2, 2) = 10

(***************************************************************************)
(* The tile engine down to the bytes, on an uncompressed tiled image: the  *)
(* tiles a rectangle needs, in the order the code finds them, and the copy *)
(* of each tile's part of the rectangle into the output.  Every tile of    *)
(* the file has the full tile size; the part of an edge tile that lies     *)
(* outside the image holds PadByte.                                        *)
(***************************************************************************)
\* image width and height, tile width and height of the images tried
BlitLayouts == {<<4, 4, 2, 2>>, <<5, 3, 2, 2>>, <<5, 3, 3, 2>>, <<4, 4, 4, 4>>}

PadByte == 255

\* byte b of pixel (px, py) of an image of width w: never zero, never PadByte
ImageByte(w, bytesPerPixel, px, py, b) == (py * w + px) * bytesPerPixel + b + 1

\* the image: missing is the number of tiles the offsets array lacks
BlitImage(l, dataType, missing) ==
    [Width |-> l[1], Height |-> l[2], BandCount |-> 1, DataType |-> dataType,
     tileWidth |-> l[3], tileHeight |-> l[4],
     tileCount |-> CeilDiv(l[1], l[3]) * CeilDiv(l[2], l[4]) - missing]

\* the bytes of tile (tileX, tileY) in the file
TileData(img, bytesPerPixel, tileX, tileY) ==
    [k \in 1..(img.tileWidth * img.tileHeight * bytesPerPixel) |->
        LET p == (k - 1) \div bytesPerPixel
            px == tileX * img.tileWidth + (p % img.tileWidth)
            py == tileY * img.tileHeight + (p \div img.tileWidth)
        IN  IF px < img.Width /\ py < img.Height
            THEN ImageByte(img.Width, bytesPerPixel, px, py, (k - 1) % bytesPerPixel)
            ELSE PadByte]

\* the first tile column (or row) of a span of pixels
StartTile(x, tileWidth) == x \div tileWidth

\* a plausible slip: the span taken to end in the tile it starts in
EndTileOfStart(x, width, tileWidth) == x \div tileWidth

\* the last tile column (or row) of a span of pixels
EndTile(x, width, tileWidth) == (x + width - 1) \div tileWidth

\* readTiledRegion: the tiles to read, rows of tiles first, those beyond
\* the offsets array left out
CollectTiles(img, x, y, width, height) ==
    LET tilesPerRow == (img.Width + img.tileWidth - 1) \div img.tileWidth
        startTileX == StartTile(x, img.tileWidth)
        endTileX == EndTile(x, width, img.tileWidth)
        startTileY == StartTile(y, img.tileHeight)
        endTileY == EndTile(y, height, img.tileHeight)
        nx == endTileX - startTileX + 1
        all == [i \in 1..(nx * (endTileY - startTileY + 1)) |->
                    LET tileX == startTileX + ((i - 1) % nx)
                        tileY == startTileY + ((i - 1) \div nx)
                    IN  [tileX |-> tileX, tileY |-> tileY,
                         tileIndex |-> tileY * tilesPerRow + tileX]]
    IN  SelectSeq(all, LAMBDA t : t.tileIndex < img.tileCount)

\* the row loop of copyTileToOutput from row on, with its two bounds checks
RECURSIVE copyRows(_, _, _, _)
copyRows(tileData, output, c, row) ==
    IF row >= c.copyHeight THEN output
    ELSE LET srcOffset == (c.tileOffsetY + row) * c.tileWidth * c.bytesPerPixel
                          + c.tileOffsetX * c.bytesPerPixel
             dstOffset == (c.outputOffsetY + row) * c.width * c.bytesPerPixel
                          + c.outputOffsetX * c.bytesPerPixel
             n0 == c.copyWidth * c.bytesPerPixel
             n1 == IF srcOffset + n0 > Len(tileData) THEN Len(tileData) - srcOffset ELSE n0
             n2 == IF dstOffset + n1 > Len(output) THEN Len(output) - dstOffset ELSE n1
         IN  IF n1 <= 0 \/ n2 <= 0 THEN output
             ELSE copyRows(tileData,
                           [k \in 1..Len(output) |->
                                IF dstOffset < k /\ k <= dstOffset + n2
                                THEN tileData[srcOffset + (k - dstOffset)]
                                ELSE output[k]],
                           c, row + 1)

\* the row loop with a plausible slip: a row that does not fit the tile data
\* is left out as a whole
RECURSIVE copyWholeRows(_, _, _, _)
copyWholeRows(tileData, output, c, row) ==
    IF row >= c.copyHeight THEN output
    ELSE LET srcOffset == (c.tileOffsetY + row) * c.tileWidth * c.bytesPerPixel
                          + c.tileOffsetX * c.bytesPerPixel
             dstOffset == (c.outputOffsetY + row) * c.width * c.bytesPerPixel
                          + c.outputOffsetX * c.bytesPerPixel
             n0 == c.copyWidth * c.bytesPerPixel
         IN  IF srcOffset + n0 > Len(tileData) \/ dstOffset + n0 > Len(output) THEN output
             ELSE copyWholeRows(tileData,
                                [k \in 1..Len(output) |->
                                    IF dstOffset < k /\ k <= dstOffset + n0
                                    THEN tileData[srcOffset + (k - dstOffset)]
                                    ELSE output[k]],
                                c, row + 1)

\* the geometry of a copy: tile and output offsets of the part of the tile
\* inside the rectangle
CopyGeometry(tile, x, y, width, height, tileWidth, tileHeight, bytesPerPixel) ==
    LET tileStartX == tile.tileX * tileWidth
        tileStartY == tile.tileY * tileHeight
        copyStartX == Max(x, tileStartX)
        copyStartY == Max(y, tileStartY)
        copyEndX == Min(x + width, tileStartX + tileWidth)
        copyEndY == Min(y + height, tileStartY + tileHeight)
    IN  [empty |-> copyStartX >= copyEndX \/ copyStartY >= copyEndY,
         copyWidth |-> copyEndX - copyStartX,
         copyHeight |-> copyEndY - copyStartY,
         tileOffsetX |-> copyStartX - tileStartX,
         tileOffsetY |-> copyStartY - tileStartY,
         outputOffsetX |-> copyStartX - x,
         outputOffsetY |-> copyStartY - y,
         width |-> width, tileWidth |-> tileWidth,
         bytesPerPixel |-> bytesPerPixel]

\* a plausible slip: copyTileToOutput without the copy of the bytes left of
\* a short tile
copyTileWholeRows(tile, tileData, output, x, y, width, height, tileWidth, tileHeight, bytesPerPixel) ==
    LET c == CopyGeometry(tile, x, y, width, height, tileWidth, tileHeight, bytesPerPixel)
    IN  IF c.empty THEN output ELSE copyWholeRows(tileData, output, c, 0)

\* COG.copyTileToOutput
copyTileToOutput(tile, tileData, output, x, y, width, height, tileWidth, tileHeight, bytesPerPixel) ==
    LET tileStartX == tile.tileX * tileWidth
        tileStartY == tile.tileY * tileHeight
        copyStartX == Max(x, tileStartX)
        copyStartY == Max(y, tileStartY)
        copyEndX == Min(x + width, tileStartX + tileWidth)
        copyEndY == Min(y + height, tileStartY + tileHeight)
    IN  IF copyStartX >= copyEndX \/ copyStartY >= copyEndY THEN output
        ELSE copyRows(tileData, output,
                      [copyWidth |-> copyEndX - copyStartX,
                       copyHeight |-> copyEndY - copyStartY,
                       tileOffsetX |-> copyStartX - tileStartX,
                       tileOffsetY |-> copyStartY - tileStartY,
                       outputOffsetX |-> copyStartX - x,
                       outputOffsetY |-> copyStartY - y,
                       width |-> width, tileWidth |-> tileWidth,
                       bytesPerPixel |-> bytesPerPixel],
                      0)

\* the loop of readTiledRegionSequential from tile i on, with compression
\* None and no failing seek or read
RECURSIVE blitTiles(_, _, _, _, _, _)
blitTiles(img, tiles, i, output, r, bytesPerPixel) ==
    IF i > Len(tiles) THEN output
    ELSE blitTiles(img, tiles, i + 1,
                   copyTileToOutput(tiles[i],
                                    TileData(img, bytesPerPixel, tiles[i].tileX, tiles[i].tileY),
                                    output, r.X, r.Y, r.Width, r.Height,
                                    img.tileWidth, img.tileHeight, bytesPerPixel),
                   r, bytesPerPixel)

\* COG.readTiledRegion
readTiledRegion(img, r) ==
    LET bytesPerPixel == img.BandCount * getBytesPerSample(img.DataType)
        output == [k \in 1..(r.Width * r.Height * bytesPerPixel) |-> 0]
    IN  blitTiles(img, CollectTiles(img, r.X, r.Y, r.Width, r.Height), 1, output, r,
                  bytesPerPixel)

\* the rectangles that lie inside the image
BlitRects(img) ==
    {r \in [X : 0..(img.Width - 1), Y : 0..(img.Height - 1),
            Width : 1..img.Width, Height : 1..img.Height] :
        r.X + r.Width <= img.Width /\ r.Y + r.Height <= img.Height}

BtInit ==
    /\ \E l \in BlitLayouts, dataType \in {DTByte, DTSShort}, missing \in {0, 1} :
            btImage = BlitImage(l, dataType, missing)
    /\ btRect = NoRect
    /\ btOutput = <<>>
    /\ OthersIdle({"bt"})

BtReadTiledRegion ==
    /\ \E r \in BlitRects(btImage) :
            /\ btRect' = r
            /\ btOutput' = readTiledRegion(btImage, r)
    /\ UNCHANGED btImage
    /\ UNCHANGED notBt

BtNext == BtReadTiledRegion

SpecBlit == BtInit /\ [][BtNext]_vars

BtBytesPerPixel == btImage.BandCount * getBytesPerSample(btImage.DataType)

\* every tile of the image is in the offsets array
AllTilesExist ==
    btImage.tileCount = CeilDiv(btImage.Width, btImage.tileWidth)
                        * CeilDiv(btImage.Height, btImage.tileHeight)

\* C5: for a tiled image whose tiles all exist with the full tile size and
\* a rectangle (x, y, w, h) inside the image, the output has w*h*bands*bps
\* bytes and the bytes of output pixel (col, row) are those of image pixel
\* (x+col, y+row), in one tile or across several tiles in both directions.
C5_RectangleBlitted ==
    (btRect # NoRect /\ AllTilesExist) =>
        /\ Len(btOutput) = btRect.Width * btRect.Height * BtBytesPerPixel
        /\ \A col \in 0..(btRect.Width - 1), row \in 0..(btRect.Height - 1) :
           \A b \in 0..(BtBytesPerPixel - 1) :
                btOutput[(row * btRect.Width + col) * BtBytesPerPixel + b + 1]
                    = ImageByte(btImage.Width, BtBytesPerPixel,
                                btRect.X + col, btRect.Y + row, b)

\* a rectangle of 16-bit pixels across six tiles, three along x and two
\* along y, beginning inside the first tile
C5_Witness ==
    /\ AllTilesExist
    /\ btImage.Width = 5 /\ btImage.Height = 3 /\ btImage.tileWidth = 2
    /\ BtBytesPerPixel = 2
    /\ btRect = [X |-> 1, Y |-> 1, Width |-> 4, Height |-> 2]
    /\ Len(CollectTiles(btImage, 1, 1, 4, 2)) = 6
    /\ Len(btOutput) = 16
    /\ btOutput[16] = ImageByte(5, 2, 4, 2, 1)

(***************************************************************************)
(* copyTileToOutput on tile data of any length: the data a decompression   *)
(* returned may be shorter or longer than a full tile.  Besides the        *)
(* output, the slices every copy takes of the tile data and of the output  *)
(* are kept, as the code computes them.                                    *)
(***************************************************************************)
\* the data of a tile cut or extended to n bytes
ResizedTile(data, n) == [k \in 1..n |-> IF k <= Len(data) THEN data[k] ELSE PadByte]

\* the lengths tried for a tile of full bytes
CopyLens(full) == {n \in {0, 1, 3, full - 2, full, full + 3} : n >= 0}

\* the row loop of copyTileToOutput from row on: the slices
\* tileData[src : src+n] and output[dst : dst+n] of each copy
RECURSIVE copySpans(_, _, _, _)
copySpans(dataLen, outLen, c, row) ==
    IF row >= c.copyHeight THEN <<>>
    ELSE LET srcOffset == (c.tileOffsetY + row) * c.tileWidth * c.bytesPerPixel
                          + c.tileOffsetX * c.bytesPerPixel
             dstOffset == (c.outputOffsetY + row) * c.width * c.bytesPerPixel
                          + c.outputOffsetX * c.bytesPerPixel
             n0 == c.copyWidth * c.bytesPerPixel
             n1 == IF srcOffset + n0 > dataLen THEN dataLen - srcOffset ELSE n0
             n2 == IF dstOffset + n1 > outLen THEN outLen - dstOffset ELSE n1
         IN  IF n1 <= 0 \/ n2 <= 0 THEN <<>>
             ELSE <<[src |-> srcOffset, dst |-> dstOffset, n |-> n2]>>
                    \o copySpans(dataLen, outLen, c, row + 1)

\* the tile loop from tile i on: the output and the slices taken
RECURSIVE copyTiles(_, _, _, _, _)
copyTiles(call, tiles, i, output, spans) ==
    IF i > Len(tiles) THEN [output |-> output, spans |-> spans]
    ELSE LET img == call.img
             r == call.r
             bytesPerPixel == img.BandCount * getBytesPerSample(img.DataType)
             tileData == ResizedTile(TileData(img, bytesPerPixel, tiles[i].tileX,
                                              tiles[i].tileY), call.dataLen)
             c == CopyGeometry(tiles[i], r.X, r.Y, r.Width, r.Height,
                               img.tileWidth, img.tileHeight, bytesPerPixel)
         IN  copyTiles(call, tiles, i + 1,
                       copyTileToOutput(tiles[i], tileData, output, r.X, r.Y, r.Width,
                                        r.Height, img.tileWidth, img.tileHeight,
                                        bytesPerPixel),
                       IF c.empty THEN spans
                       ELSE spans \o copySpans(call.dataLen, Len(output), c, 0))

CpInit ==
    /\ \E l \in BlitLayouts, dataType \in {DTByte, DTSShort}, missing \in {0, 1} :
       \E n \in CopyLens(l[3] * l[4] * getBytesPerSample(dataType)) :
            cpCall = [img |-> BlitImage(l, dataType, missing), r |-> NoRect, dataLen |-> n]
    /\ cpOut = <<>>
    /\ cpSpans = <<>>
    /\ OthersIdle({"cp"})

\* the tile loop of readTiledRegionSequential on an uncompressed image
CpReadTiles ==
    /\ cpCall.r = NoRect
    /\ \E r \in BlitRects(cpCall.img) :
            LET call == [cpCall EXCEPT !.r = r]
                bytesPerPixel == call.img.BandCount * getBytesPerSample(call.img.DataType)
                done == copyTiles(call, CollectTiles(call.img, r.X, r.Y, r.Width, r.Height),
                                  1, [k \in 1..(r.Width * r.Height * bytesPerPixel) |-> 0],
                                  <<>>)
            IN  /\ cpCall' = call
                /\ cpOut' = done.output
                /\ cpSpans' = done.spans
    /\ UNCHANGED notCp

CpNext == CpReadTiles

SpecCopy == CpInit /\ [][CpNext]_vars

CpBytesPerPixel == cpCall.img.BandCount * getBytesPerSample(cpCall.img.DataType)

\* byte b of output pixel (col, row) as the tile that holds the pixel gives
\* it: the byte of the tile data when the data reaches that far, else zero
CpExpected(col, row, b) ==
    LET img == cpCall.img
        px == cpCall.r.X + col
        py == cpCall.r.Y + row
        tileX == px \div img.tileWidth
        tileY == py \div img.tileHeight
        tileIndex == tileY * CeilDiv(img.Width, img.tileWidth) + tileX
        src == ((py - tileY * img.tileHeight) * img.tileWidth
                    + (px - tileX * img.tileWidth)) * CpBytesPerPixel + b
        full == TileData(img, CpBytesPerPixel, tileX, tileY)
    IN  IF tileIndex >= img.tileCount \/ src >= cpCall.dataLen THEN 0
        ELSE IF src < Len(full) THEN full[src + 1] ELSE PadByte

\* C26: for any length of the tile data, shorter or longer than a full
\* tile, and any rectangle, the copy reads inside the tile data, writes
\* inside the output and does not fail; a row that does not fit is copied
\* up to the bytes there are, the later rows of the tile are left out, and
\* the output bytes no tile gave stay zero.
C26_CopyStaysInBounds ==
    cpCall.r # NoRect =>
        /\ \A i \in DOMAIN cpSpans :
                /\ cpSpans[i].n > 0
                /\ 0 <= cpSpans[i].src /\ cpSpans[i].src + cpSpans[i].n <= cpCall.dataLen
                /\ 0 <= cpSpans[i].dst /\ cpSpans[i].dst + cpSpans[i].n <= Len(cpOut)
        /\ Len(cpOut) = cpCall.r.Width * cpCall.r.Height * CpBytesPerPixel
        /\ \A k \in DOMAIN cpOut :
                cpOut[k] # 0 <=> \E i \in DOMAIN cpSpans :
                                    cpSpans[i].dst < k /\ k <= cpSpans[i].dst + cpSpans[i].n
        /\ \A col \in 0..(cpCall.r.Width - 1), row \in 0..(cpCall.r.Height - 1) :
           \A b \in 0..(CpBytesPerPixel - 1) :
                cpOut[(row * cpCall.r.Width + col) * CpBytesPerPixel + b + 1]
                    = CpExpected(col, row, b)

\* one tile of 4x4 bytes with 14 bytes of data: three rows whole, two bytes
\* of the last row, the rest zero
C26_Witness ==
    /\ cpCall.r = [X |-> 0, Y |-> 0, Width |-> 4, Height |-> 4]
    /\ cpCall.img.tileWidth = 4 /\ CpBytesPerPixel = 1 /\ cpCall.dataLen = 14
    /\ cpCall.img.tileCount = 1
    /\ cpOut = <<1, 2, 3, 4, 5, 6, 7, 8, 9, 10, 11, 12, 13, 14, 0, 0>>
    /\ Len(cpSpans) = 4 /\ cpSpans[4] = [src |-> 12, dst |-> 12, n |-> 2]

\* tiles of 2x2 bytes with 3 bytes of data each, a rectangle across four
\* tiles: the second row of every tile stops after one byte
C26_WitnessShortTiles ==
    /\ cpCall.r = [X |-> 0, Y |-> 0, Width |-> 4, Height |-> 4]
    /\ cpCall.img.tileWidth = 2 /\ cpCall.img.tileHeight = 2
    /\ cpCall.img.Width = 4 /\ cpCall.img.tileCount = 4
    /\ CpBytesPerPixel = 1 /\ cpCall.dataLen = 3
    /\ cpOut = <<1, 2, 3, 4, 5, 0, 7, 0, 9, 10, 11, 12, 13, 0, 15, 0>>

\* longer data than a full tile: the bytes beyond the tile are not read
C26_WitnessLongTile ==
    /\ cpCall.r # NoRect /\ cpCall.img.tileWidth = 2 /\ cpCall.img.tileHeight = 2
    /\ CpBytesPerPixel = 2 /\ cpCall.dataLen = 11
    /\ cpCall.r.Width = 4 /\ cpCall.r.Height = 2
    /\ \A i \in DOMAIN cpSpans : cpSpans[i].src + cpSpans[i].n <= 8
    /\ \A k \in DOMAIN cpOut : cpOut[k] # 0

(***************************************************************************)
(* One pixel read, step by step, with the buffers it takes from the pool   *)
(* and puts back: readTiledRegionSequential, the three phases of the       *)
(* parallel readTiledRegion, and readStrippedRegion.  A step is one        *)
(* iteration of a loop of the code, or one move of a worker goroutine.     *)
(* How the seek, the read and the decompression of each tile end is a fact *)
(* of the file, chosen with the read (enRead).                             *)
(*                                                                         *)
(* A buffer is known by its index in enBufs.  The slice a decompression    *)
(* returns is a buffer of its own (from the pool for JPEG, from io.ReadAll *)
(* for LZW and Deflate) or the compressed buffer itself (None, and LZW     *)
(* data of the expected size).                                             *)
(***************************************************************************)
CompressionNone == 1
CompressionLZW == 5
CompressionJPEG == 6
CompressionDeflate == 8

\* a compression code decompressTile has no case for
CompressionOther == 7

xlargeBufferSize == 4194304

\* the most tiles or strips of a read, and the most cores
MaxTiles == 3
MaxCores == 3

\* the most tiles and cores of a read taken together
MaxLoad == 5

\* byte counts of the tiles tried: one the pool serves, one beyond its classes
TileSizes == {100, xlargeBufferSize + 1}

\* GetBuffer: the buffers with the new one at the end; it is from the pool
\* unless the size is beyond the largest class
GetBuffer(bufs, n) == Append(bufs, [pooled |-> n <= xlargeBufferSize, puts |-> 0])

\* a slice allocated outside the pool (io.ReadAll)
HeapBuffer(bufs) == Append(bufs, [pooled |-> FALSE, puts |-> 0])

\* PutBuffer of buffer id (0 is the nil slice): a buffer whose capacity is
\* not that of a class is dropped
PutBuffer(bufs, id) ==
    IF id = 0 THEN bufs
    ELSE IF ~bufs[id].pooled THEN bufs
    ELSE [bufs EXCEPT ![id].puts = @ + 1]

\* PutBuffer of each buffer of a sequence of ids, in order
RECURSIVE PutAll(_, _)
PutAll(bufs, ids) ==
    IF ids = <<>> THEN bufs ELSE PutAll(PutBuffer(bufs, Head(ids)), Tail(ids))

\* how decompressTile can end for a compression code: "ok" a new slice,
\* "same" the data itself, "fail" an error
DecompressEnds(compression) ==
    CASE compression = CompressionNone -> {"same"}
      [] compression = CompressionLZW -> {"ok", "same", "fail"}
      [] compression = CompressionDeflate -> {"ok", "fail"}
      [] compression = CompressionJPEG -> {"ok", "fail"}
      [] OTHER -> {"fail"}

\* decompressTile: the buffers, the slice returned (0 for nil) and the error
decompressTile(bufs, data, compression, expectedSize, end) ==
    IF end = "fail" THEN [bufs |-> bufs, data |-> 0, err |-> TRUE]
    ELSE IF end = "same" THEN [bufs |-> bufs, data |-> data, err |-> FALSE]
    ELSE IF compression = CompressionJPEG
    THEN [bufs |-> GetBuffer(bufs, expectedSize), data |-> Len(bufs) + 1, err |-> FALSE]
    ELSE [bufs |-> HeapBuffer(bufs), data |-> Len(bufs) + 1, err |-> FALSE]

NoItem == [compressedData |-> 0, decompressedData |-> 0, err |-> FALSE]

\* the ids a field holds over the items, nil left out, in item order
RECURSIVE HeldIn(_, _, _)
HeldIn(items, field, i) ==
    IF i > Len(items) THEN <<>>
    ELSE IF items[i][field] = 0 THEN HeldIn(items, field, i + 1)
    ELSE <<items[i][field]>> \o HeldIn(items, field, i + 1)

Compressions ==
    {CompressionNone, CompressionLZW, CompressionJPEG, CompressionDeflate, CompressionOther}

\* the path readPixelRegion and readTiledRegion take
FirstPc(read) ==
    IF read.layout = "stripped" THEN "strips"
    ELSE IF read.n <= 1 \/ read.compression = CompressionNone THEN "sequential"
    ELSE "phase1"

\* how the seek and the read of tile i end: the file decides
IoOf(read, i) == IF read.ioAt = i THEN read.ioKind ELSE "ok"

\* numWorkers: runtime.NumCPU(), at most the number of tiles
NumWorkers(cores, n) == Min(cores, n)

\* a plausible slip: a channel that holds one tile
QueueCapacityOne(n) == 1

\* the capacity of workChan
QueueCapacity(n) == n

\* a plausible slip: the wait ends with the first worker that ends
SomeWorkerGone(workers) == \E w \in DOMAIN workers : workers[w].pc = "gone"

\* wg.Wait: every worker has called wg.Done
AllWorkersGone(workers) == \A w \in DOMAIN workers : workers[w].pc = "gone"

\* a plausible slip: the tiles taken from the last to the first
Phase3Backwards(n, i) == n + 1 - i

\* the tile of turn i of the loop over tiles in phase 3
Phase3Order(n, i) == i

\* the output bytes copyTileToOutput writes for tile i of a read of n tiles
\* of 2x2 bytes in a row, the rectangle being the n tiles
TileArea(n, i) ==
    LET img == BlitImage(<<2 * n, 2, 2, 2>>, DTByte, 0)
        tiles == CollectTiles(img, 0, 0, 2 * n, 2)
        c == CopyGeometry(tiles[i], 0, 0, 2 * n, 2, 2, 2, 1)
        spans == copySpans(4, 4 * n, c, 0)
    IN  UNION {(spans[k].dst + 1)..(spans[k].dst + spans[k].n) : k \in DOMAIN spans}

\* what the read did, in order: "io" a seek and read on the reader into
\* buf, "decompress" of buf, "blit" a copy out of buf into the output
\* bytes of area, "fail" the return of the error of a tile; by is the worker
\* (0 the calling goroutine), released tells that buf had been put back
Event(op, tile, by, buf, released, area) ==
    [op |-> op, tile |-> tile, by |-> by, buf |-> buf, released |-> released, area |-> area]

IoEvent(bufs, tile, buf) == Event("io", tile, 0, buf, bufs[buf].puts > 0, {})
DecompressEvent(bufs, tile, by, buf) == Event("decompress", tile, by, buf, bufs[buf].puts > 0, {})
BlitEvent(bufs, tile, buf, area) ==
    Event("blit", tile, 0, buf, buf \in DOMAIN bufs /\ bufs[buf].puts > 0, area)
FailEvent(tile) == Event("fail", tile, 0, 0, FALSE, {})

\* the copies out of the cached strips, in strip order
RECURSIVE StripBlits(_, _, _)
StripBlits(bufs, items, i) ==
    IF i > Len(items) THEN <<>>
    ELSE IF items[i].decompressedData = 0 THEN StripBlits(bufs, items, i + 1)
    ELSE <<BlitEvent(bufs, i, items[i].decompressedData, {})>> \o StripBlits(bufs, items, i + 1)

EnInit ==
    /\ \E layout \in {"tiled", "stripped"}, compression \in Compressions,
          n \in 0..MaxTiles, cores \in 1..MaxCores, tileSize \in TileSizes :
       /\ n + cores <= MaxLoad
       /\ \E ends \in [1..n -> DecompressEnds(compression)], ioAt \in 0..n :
          \E ioKind \in IF ioAt = 0 THEN {"ok"} ELSE {"seek", "read"} :
             enRead = [layout |-> layout, compression |-> compression, n |-> n,
                       cores |-> cores, size |-> tileSize,
                       ends |-> ends, ioAt |-> ioAt, ioKind |-> ioKind]
    /\ enPc = FirstPc(enRead)
    /\ enI = 1
    /\ enItems = [i \in 1..enRead.n |-> NoItem]
    /\ enBufs = <<>>
    /\ enQueue = <<>>
    /\ enClosed = FALSE
    /\ enWorkers = <<>>
    /\ enResult = "running"
    /\ enLog = <<>>
    /\ OthersIdle({"en"})

\* the read returns
Return(result) ==
    /\ enPc' = "done"
    /\ enResult' = result

\* one iteration of the loop of readTiledRegionSequential
SequentialTile ==
    /\ enPc = "sequential" /\ enI <= enRead.n
    /\ LET got == GetBuffer(enBufs, enRead.size)
           tileData == Len(got)
           io == IoOf(enRead, enI)
           read == <<IoEvent(got, enI, tileData)>>
       IN  IF io # "ok"
           THEN /\ enBufs' = PutBuffer(got, tileData)
                /\ Return(IF io = "seek" THEN "failed to seek to tile"
                          ELSE "failed to read tile")
                /\ enLog' = enLog \o read \o <<FailEvent(enI)>>
                /\ UNCHANGED <<enI, enItems>>
           ELSE LET d == decompressTile(got, tileData, enRead.compression,
                                        enRead.size, enRead.ends[enI])
                    put1 == IF enRead.compression # CompressionNone
                            THEN PutBuffer(d.bufs, tileData) ELSE d.bufs
                    decompressed == read \o <<DecompressEvent(got, enI, 0, tileData)>>
                IN  IF d.err
                    THEN /\ enBufs' = put1
                         /\ Return("failed to decompress tile")
                         /\ enLog' = enLog \o decompressed \o <<FailEvent(enI)>>
                         /\ UNCHANGED <<enI, enItems>>
                    ELSE /\ enItems' = [enItems EXCEPT ![enI].decompressedData = d.data]
                         /\ enLog' = enLog \o decompressed
                                        \o <<BlitEvent(put1, enI, d.data,
                                                       TileArea(enRead.n, enI))>>
                         /\ enBufs' = IF enRead.compression = CompressionJPEG
                                      THEN PutBuffer(put1, d.data) ELSE put1
                         /\ enI' = enI + 1
                         /\ UNCHANGED <<enPc, enResult>>
    /\ UNCHANGED <<enRead, enQueue, enClosed, enWorkers>>
    /\ UNCHANGED notEn

\* readTiledRegionSequential returns the output after its last tile
SequentialReturn ==
    /\ enPc = "sequential" /\ enI > enRead.n
    /\ Return("ok")
    /\ UNCHANGED <<enRead, enI, enItems, enBufs, enQueue, enClosed, enWorkers, enLog>>
    /\ UNCHANGED notEn

\* phase 1 of readTiledRegion: the compressed bytes of one tile are read
Phase1Tile ==
    /\ enPc = "phase1" /\ enI <= enRead.n
    /\ LET got == GetBuffer(enBufs, enRead.size)
           items == [enItems EXCEPT ![enI].compressedData = Len(got)]
           io == IoOf(enRead, enI)
           read == <<IoEvent(got, enI, Len(got))>>
       IN  IF io # "ok"
           THEN /\ enBufs' = PutAll(got, HeldIn(items, "compressedData", 1))
                /\ enItems' = items
                /\ Return(IF io = "seek" THEN "failed to seek to tile"
                          ELSE "failed to read tile")
                /\ enLog' = enLog \o read \o <<FailEvent(enI)>>
                /\ UNCHANGED enI
           ELSE /\ enBufs' = got
                /\ enItems' = items
                /\ enI' = enI + 1
                /\ enLog' = enLog \o read
                /\ UNCHANGED <<enPc, enResult>>
    /\ UNCHANGED <<enRead, enQueue, enClosed, enWorkers>>
    /\ UNCHANGED notEn

\* phase 2 begins: workChan is made and the worker goroutines are started
StartWorkers ==
    /\ enPc = "phase1" /\ enI > enRead.n
    /\ enWorkers' = [w \in 1..NumWorkers(enRead.cores, enRead.n) |->
                        [pc |-> "waiting", tile |-> 0]]
    /\ enQueue' = <<>>
    /\ enI' = 1
    /\ enPc' = "dispatch"
    /\ UNCHANGED <<enRead, enItems, enBufs, enClosed, enResult, enLog>>
    /\ UNCHANGED notEn

\* the caller sends one tile to workChan; the send waits while the channel
\* is full
Send ==
    /\ enPc = "dispatch" /\ enI <= enRead.n
    /\ Len(enQueue) < QueueCapacity(enRead.n)
    /\ enQueue' = Append(enQueue, enI)
    /\ enI' = enI + 1
    /\ UNCHANGED <<enRead, enPc, enItems, enBufs, enClosed, enWorkers, enResult, enLog>>
    /\ UNCHANGED notEn

\* close(workChan) after the last send
CloseQueue ==
    /\ enPc = "dispatch" /\ enI > enRead.n
    /\ enClosed' = TRUE
    /\ enPc' = "phase2"
    /\ UNCHANGED <<enRead, enI, enItems, enBufs, enQueue, enWorkers, enResult, enLog>>
    /\ UNCHANGED notEn

\* a worker receives a tile from workChan
WorkerReceive(w) ==
    /\ enPc \in {"dispatch", "phase2"}
    /\ enWorkers[w].pc = "waiting" /\ enQueue # <<>>
    /\ enWorkers' = [enWorkers EXCEPT ![w] = [pc |-> "holding", tile |-> Head(enQueue)]]
    /\ enQueue' = Tail(enQueue)
    /\ UNCHANGED <<enRead, enPc, enI, enItems, enBufs, enClosed, enResult, enLog>>
    /\ UNCHANGED notEn

\* a worker decompresses its tile and puts the compressed buffer back
WorkerDecompress(w) ==
    /\ enPc \in {"dispatch", "phase2"}
    /\ enWorkers[w].pc = "holding"
    /\ LET t == enWorkers[w].tile
           d == decompressTile(enBufs, enItems[t].compressedData,
                               enRead.compression, enRead.size, enRead.ends[t])
       IN  /\ enBufs' = PutBuffer(d.bufs, enItems[t].compressedData)
           /\ enItems' = [enItems EXCEPT ![t] =
                             [compressedData |-> 0, decompressedData |-> d.data,
                              err |-> d.err]]
           /\ enLog' = Append(enLog, DecompressEvent(enBufs, t, w,
                                                     enItems[t].compressedData))
    /\ enWorkers' = [enWorkers EXCEPT ![w] = [pc |-> "waiting", tile |-> 0]]
    /\ UNCHANGED <<enRead, enPc, enI, enQueue, enClosed, enResult>>
    /\ UNCHANGED notEn

\* a worker finds workChan closed and empty and ends
WorkerExit(w) ==
    /\ enPc \in {"dispatch", "phase2"}
    /\ enWorkers[w].pc = "waiting" /\ enQueue = <<>> /\ enClosed
    /\ enWorkers' = [enWorkers EXCEPT ![w] = [pc |-> "gone", tile |-> 0]]
    /\ UNCHANGED <<enRead, enPc, enI, enItems, enBufs, enQueue, enClosed, enResult, enLog>>
    /\ UNCHANGED notEn

\* wg.Wait returns once every worker has ended
WaitWorkers ==
    /\ enPc = "phase2"
    /\ AllWorkersGone(enWorkers)
    /\ enPc' = "phase3"
    /\ enI' = 1
    /\ UNCHANGED <<enRead, enItems, enBufs, enQueue, enClosed, enWorkers, enResult, enLog>>
    /\ UNCHANGED notEn

\* phase 3: one tile is checked and copied to the output, and the read
\* returns after the last one
Phase3Tile ==
    /\ enPc = "phase3" /\ enI <= enRead.n
    /\ LET t == Phase3Order(enRead.n, enI)
       IN  IF enItems[t].err
           THEN /\ enBufs' = IF enRead.compression = CompressionJPEG
                             THEN PutAll(enBufs, HeldIn(enItems, "decompressedData", 1))
                             ELSE enBufs
                /\ Return("failed to decompress tile")
                /\ enLog' = Append(enLog, FailEvent(t))
                /\ UNCHANGED enI
           ELSE /\ enBufs' = IF enRead.compression = CompressionJPEG
                             THEN PutBuffer(enBufs, enItems[t].decompressedData)
                             ELSE enBufs
                /\ enLog' = Append(enLog, BlitEvent(enBufs, t, enItems[t].decompressedData,
                                                    TileArea(enRead.n, t)))
                /\ enI' = enI + 1
                /\ IF enI = enRead.n THEN Return("ok") ELSE UNCHANGED <<enPc, enResult>>
    /\ UNCHANGED <<enRead, enItems, enQueue, enClosed, enWorkers>>
    /\ UNCHANGED notEn

\* one iteration of the strip loop of readStrippedRegion; stripCache holds
\* the decompressedData of the strips done
StripRead ==
    /\ enPc = "strips" /\ enI <= enRead.n
    /\ LET got == GetBuffer(enBufs, enRead.size)
           compressedData == Len(got)
           cached == HeldIn(enItems, "decompressedData", 1)
           io == IoOf(enRead, enI)
           read == <<IoEvent(got, enI, compressedData)>>
       IN  IF io # "ok"
           THEN /\ enBufs' = PutAll(PutBuffer(got, compressedData), cached)
                /\ Return(IF io = "seek" THEN "failed to seek to strip"
                          ELSE "failed to read strip")
                /\ enLog' = enLog \o read \o <<FailEvent(enI)>>
                /\ UNCHANGED <<enI, enItems>>
           ELSE LET d == decompressTile(got, compressedData, enRead.compression,
                                        enRead.size, enRead.ends[enI])
                    put1 == IF enRead.compression # CompressionNone
                            THEN PutBuffer(d.bufs, compressedData) ELSE d.bufs
                    decompressed == read \o <<DecompressEvent(got, enI, 0, compressedData)>>
                IN  IF d.err
                    THEN /\ enBufs' = PutAll(put1, cached)
                         /\ Return("failed to decompress strip")
                         /\ enLog' = enLog \o decompressed \o <<FailEvent(enI)>>
                         /\ UNCHANGED <<enI, enItems>>
                    ELSE /\ enItems' = [enItems EXCEPT ![enI].decompressedData = d.data]
                         /\ enBufs' = put1
                         /\ enLog' = enLog \o decompressed
                         /\ enI' = enI + 1
                         /\ UNCHANGED <<enPc, enResult>>
    /\ UNCHANGED <<enRead, enQueue, enClosed, enWorkers>>
    /\ UNCHANGED notEn

\* readStrippedRegion copies the rows out of stripCache, cleans it up and
\* returns
StripReturn ==
    /\ enPc = "strips" /\ enI > enRead.n
    /\ enLog' = enLog \o StripBlits(enBufs, enItems, 1)
    /\ enBufs' = IF enRead.compression = CompressionJPEG
                 THEN PutAll(enBufs, HeldIn(enItems, "decompressedData", 1))
                 ELSE enBufs
    /\ Return("ok")
    /\ UNCHANGED <<enRead, enI, enItems, enQueue, enClosed, enWorkers>>
    /\ UNCHANGED notEn

EnNext ==
    \/ SequentialTile
    \/ SequentialReturn
    \/ Phase1Tile
    \/ StartWorkers
    \/ Send
    \/ CloseQueue
    \/ \E w \in DOMAIN enWorkers : WorkerReceive(w)
    \/ \E w \in DOMAIN enWorkers : WorkerDecompress(w)
    \/ \E w \in DOMAIN enWorkers : WorkerExit(w)
    \/ WaitWorkers
    \/ Phase3Tile
    \/ StripRead
    \/ StripReturn

SpecEngine == EnInit /\ [][EnNext]_vars

\* the buffers taken from the pool and not put back
NotReturned == {id \in DOMAIN enBufs : enBufs[id].pooled /\ enBufs[id].puts = 0}

\* C3: on every path (tiled sequential, tiled parallel, stripped), for every
\* compression code and however the read ends, every buffer taken from the
\* pool during the read has been put back when the read returns.
C3_BuffersReturned ==
    enPc = "done" => NotReturned = {}

\* the same for the compression codes other than None
C3_BuffersReturnedWhenCompressed ==
    (enPc = "done" /\ enRead.compression # CompressionNone) => NotReturned = {}

\* with compression None a failed stripped read puts every buffer back, and
\* a read that succeeds keeps every buffer it took
C3_UncompressedKept ==
    (enPc = "done" /\ enRead.compression = CompressionNone) =>
        /\ (enRead.layout = "stripped" /\ enResult # "ok") => NotReturned = {}
        /\ enResult = "ok" =>
                NotReturned = {id \in DOMAIN enBufs : enBufs[id].pooled}

\* a parallel read of three JPEG tiles fails at the last tile after the
\* first two were copied: every buffer is back in the pool
C3_ParallelFailureCleaned ==
    /\ enPc = "done" /\ enResult = "failed to decompress tile"
    /\ enRead.layout = "tiled" /\ enRead.compression = CompressionJPEG /\ enRead.n = 3
    /\ enItems[3].err /\ ~enItems[1].err /\ ~enItems[2].err
    /\ Len(enBufs) = 5
    /\ NotReturned = {}

\* C29: during a pixel read a buffer taken from the pool is put back at
\* most once, when the read succeeds and on every error path, so that the
\* pool never holds the same buffer twice.
C29_ReleasedAtMostOnce ==
    \A id \in DOMAIN enBufs : enBufs[id].puts <= 1

\* the buffers put back more than once
PutTwice == {id \in DOMAIN enBufs : enBufs[id].puts > 1}

\* what the code does: a buffer is put back twice only by the clean-up of a
\* failed read, of JPEG tiles in phase 3 or of strips that LZW passed
\* through, and never more than twice; a read that succeeds puts every
\* buffer back at most once
C29_ReleasedTwiceOnlyOnFailure ==
    /\ \A id \in DOMAIN enBufs : enBufs[id].puts <= 2
    /\ PutTwice # {} =>
            /\ enPc = "done" /\ enResult # "ok"
            /\ \/ /\ enRead.layout = "tiled" /\ enRead.compression = CompressionJPEG
                  /\ enResult = "failed to decompress tile" /\ enWorkers # <<>>
               \/ /\ enRead.layout = "stripped" /\ enRead.compression = CompressionLZW
                  /\ \A id \in PutTwice : \E i \in 1..enRead.n :
                        enRead.ends[i] = "same" /\ enItems[i].decompressedData = id

\* a parallel read of three JPEG tiles whose last tile fails: the buffers
\* of the first two tiles are put back after their copy and again by the
\* clean-up
C29_JPEGTilesPutTwice ==
    /\ enPc = "done" /\ enResult = "failed to decompress tile"
    /\ enRead.layout = "tiled" /\ enRead.compression = CompressionJPEG /\ enRead.n = 3
    /\ enRead.ends = <<"ok", "ok", "fail">> /\ enRead.size = 100
    /\ PutTwice = {enItems[1].decompressedData, enItems[2].decompressedData}

\* two LZW strips, the first passed through and cached, the second
\* failing: the buffer of the first is put back a second time
C29_CachedStripPutTwice ==
    /\ enPc = "done" /\ enResult = "failed to decompress strip"
    /\ enRead.layout = "stripped" /\ enRead.compression = CompressionLZW /\ enRead.n = 2
    /\ enRead.ends = <<"same", "fail">> /\ enRead.size = 100
    /\ PutTwice = {1}

\* the events that used a buffer after it had been put back
UsedReleased == {k \in DOMAIN enLog : enLog[k].released}

\* C30: no buffer is read or written after it has been put back: the bytes
\* copied into the output come from a buffer the read still owns, also
\* when LZW data of the expected size is passed through, on the sequential
\* and on the parallel path.
C30_NoUseAfterRelease ==
    UsedReleased = {}

\* what the code does: the buffers used after their release are those LZW
\* passed through, at their copy into the output; every other read, write
\* and copy is on a buffer the read owns
C30_OnlyPassThroughUsedReleased ==
    \A k \in UsedReleased :
        /\ enLog[k].op = "blit"
        /\ enRead.compression = CompressionLZW
        /\ enRead.ends[enLog[k].tile] = "same"
        /\ enRead.size <= xlargeBufferSize

\* a single LZW tile passed through on the sequential path is copied after
\* its buffer went back to the pool
C30_SequentialCopyOfReleased ==
    /\ enPc = "done" /\ enResult = "ok"
    /\ enRead.layout = "tiled" /\ enRead.compression = CompressionLZW /\ enRead.n = 1
    /\ enWorkers = <<>>
    /\ \E k \in DOMAIN enLog : enLog[k].op = "blit" /\ enLog[k].released /\ enLog[k].buf = 1

\* the same on the parallel path, for the second of two tiles
C30_ParallelCopyOfReleased ==
    /\ enPc = "done" /\ enResult = "ok"
    /\ enRead.layout = "tiled" /\ enRead.compression = CompressionLZW /\ enRead.n = 2
    /\ enRead.ends = <<"ok", "same">> /\ Len(enWorkers) = 2
    /\ \E k \in DOMAIN enLog : enLog[k].op = "blit" /\ enLog[k].released /\ enLog[k].tile = 2

\* and for a cached strip
C30_StripCopyOfReleased ==
    /\ enPc = "done" /\ enResult = "ok"
    /\ enRead.layout = "stripped" /\ enRead.compression = CompressionLZW /\ enRead.n = 2
    /\ enRead.ends = <<"same", "ok">>
    /\ \E k \in DOMAIN enLog : enLog[k].op = "blit" /\ enLog[k].released /\ enLog[k].tile = 1

(***************************************************************************)
(* The parallel path of readTiledRegion on its own: a tiled read of two or *)
(* more compressed tiles of a size the pool serves, with the goroutines    *)
(* scheduled fairly.                                                       *)
(***************************************************************************)
ParInit == EnInit /\ FirstPc(enRead) = "phase1" /\ enRead.size <= xlargeBufferSize

\* the calling goroutine's steps
ParCaller ==
    \/ Phase1Tile
    \/ StartWorkers
    \/ Send
    \/ CloseQueue
    \/ WaitWorkers
    \/ Phase3Tile

\* the step of worker goroutine w
ParWorker(w) ==
    \/ WorkerReceive(w)
    \/ WorkerDecompress(w)
    \/ WorkerExit(w)

ParNext ==
    \/ ParCaller
    \/ \E w \in DOMAIN enWorkers : ParWorker(w)
\* some goroutine of the read can take a step: the guards of ParNext
ParCanStep ==
    \/ enPc = "phase1"
    \/ enPc = "dispatch" /\ (enI > enRead.n \/ Len(enQueue) < QueueCapacity(enRead.n))
    \/ enPc = "phase2" /\ AllWorkersGone(enWorkers)
    \/ enPc = "phase3" /\ enI <= enRead.n
    \/ /\ enPc \in {"dispatch", "phase2"}
       /\ \E w \in DOMAIN enWorkers :
            \/ enWorkers[w].pc = "holding"
            \/ enWorkers[w].pc = "waiting" /\ (enQueue # <<>> \/ enClosed)

\* the Go scheduler runs a goroutine that can run: as long as some step of
\* the read is possible, one is taken (weak fairness of ParNext, with its
\* guards written out)
SpecParallel ==
    /\ ParInit /\ [][ParNext]_vars
    /\ WF_vars(CloseQueue)
    /\ ([]<>(~ParCanStep) \/ []<><<ParNext>>_vars)

\* the workers that have not ended
Running == {w \in DOMAIN enWorkers : enWorkers[w].pc # "gone"}

\* the events a step adds to the log
Added == {enLog'[k] : k \in (Len(enLog) + 1)..Len(enLog')}

\* C22: in a parallel tiled read every seek and read on the Range Reader
\* happens before the first worker is started, no worker operates on the
\* Range Reader, and no tile is copied into the output before every worker
\* has ended.
C22_IoThenWorkersThenBlit ==
    [][\A e \in Added :
          /\ e.op = "io" => (e.by = 0 /\ enWorkers = <<>> /\ enWorkers' = <<>>)
          /\ e.by # 0 => (e.op = "decompress" /\ e.by \in Running)
          /\ e.op = "blit" => (enWorkers # <<>> /\ Running = {})]_vars

\* three tiles went through the three phases with two workers: three reads
\* by the caller, three decompressions by the workers, three copies
C22_Witness ==
    /\ enPc = "done" /\ enResult = "ok" /\ enRead.n = 3 /\ enRead.cores = 2
    /\ Len(enLog) = 9
    /\ \A k \in 1..3 : enLog[k].op = "io" /\ enLog[k + 6].op = "blit"
    /\ {enLog[k].by : k \in 4..6} = {1, 2}

\* the decompressions of tile t in the log
Decompressions(t) == {k \in DOMAIN enLog : enLog[k].op = "decompress" /\ enLog[k].tile = t}

\* C23: a tiled read of at least 2 tiles with a compression other than
\* None starts min(tiles, cores) workers; the queue takes every tile of the
\* read, so that the caller never waits at a send; every tile is
\* decompressed exactly once, by one worker; and whatever the number of
\* tiles and cores, all workers end and the read returns.
C23_WorkersDrainQueueAndEnd ==
    /\ [](enWorkers # <<>> =>
            Len(enWorkers) = (IF enRead.n < enRead.cores THEN enRead.n ELSE enRead.cores))
    /\ []((enPc = "dispatch" /\ enI <= enRead.n) => ENABLED Send)
    /\ [](\A t \in 1..enRead.n : Cardinality(Decompressions(t)) <= 1)
    /\ []((enPc = "phase3" \/ (enPc = "done" /\ enWorkers # <<>>)) =>
            /\ Running = {} /\ enQueue = <<>>
            /\ \A t \in 1..enRead.n :
                \E k \in DOMAIN enLog :
                    /\ Decompressions(t) = {k}
                    /\ enLog[k].by \in DOMAIN enWorkers)
    /\ <>(enPc = "done")

\* a read of three tiles on two cores has returned: two workers were
\* started, each decompressed a tile, and both have ended
C23_Witness ==
    /\ enPc = "done" /\ enRead.n = 3 /\ enRead.cores = 2
    /\ Len(enWorkers) = 2 /\ Running = {}
    /\ {enLog[k].by : k \in Decompressions(1) \cup Decompressions(2) \cup Decompressions(3)} = {1, 2}

\* the caller has sent every tile before a worker received one
C23_QueueHoldsAllTiles ==
    /\ enPc = "dispatch" /\ enRead.n = 3 /\ enQueue = <<1, 2, 3>>

\* more cores than tiles: a worker per tile
C23_WorkerPerTile ==
    /\ enPc = "done" /\ enRead.n = 2 /\ enRead.cores = 3 /\ Len(enWorkers) = 2

\* readTiledRegionSequential on a read, from tile i on with the tiles of
\* blits copied: how it returns, the tile whose error it returns (0 for
\* none) and the tiles copied, in order
RECURSIVE readTiledRegionSequential(_, _, _)
readTiledRegionSequential(read, i, blits) ==
    IF i > read.n THEN [result |-> "ok", tile |-> 0, blits |-> blits]
    ELSE IF IoOf(read, i) = "seek"
    THEN [result |-> "failed to seek to tile", tile |-> i, blits |-> blits]
    ELSE IF IoOf(read, i) = "read"
    THEN [result |-> "failed to read tile", tile |-> i, blits |-> blits]
    ELSE IF decompressTile(<<>>, 0, read.compression, read.size, read.ends[i]).err
    THEN [result |-> "failed to decompress tile", tile |-> i, blits |-> blits]
    ELSE readTiledRegionSequential(read, i + 1, Append(blits, i))

\* the tiles copied into the output, in the order of their copies
RECURSIVE Blitted(_)
Blitted(log) ==
    IF log = <<>> THEN <<>>
    ELSE IF Head(log).op = "blit" THEN <<Head(log).tile>> \o Blitted(Tail(log))
    ELSE Blitted(Tail(log))

\* the tile whose error the read returned, 0 for none
FailedTile(log) ==
    IF log # <<>> /\ log[Len(log)].op = "fail" THEN log[Len(log)].tile ELSE 0

\* the output returned for n tiles copied in the order of blits: nil with an
\* error, else for each byte the tile copied there last (0 for none)
OutputOf(result, n, blits) ==
    IF result # "ok" THEN <<>>
    ELSE [b \in 1..(4 * n) |->
            LET last == {k \in DOMAIN blits :
                            /\ b \in TileArea(n, blits[k])
                            /\ \A j \in DOMAIN blits :
                                  (j > k) => b \notin TileArea(n, blits[j])}
            IN  IF last = {} THEN 0 ELSE blits[CHOOSE k \in last : TRUE]]

\* the copies are made in discovery order and write disjoint output areas
BlitsInOrderAndApart ==
    LET blits == Blitted(enLog)
    IN  /\ \A k \in DOMAIN blits : blits[k] = k
        /\ \A j, k \in DOMAIN enLog :
              (j # k /\ enLog[j].op = "blit" /\ enLog[k].op = "blit") =>
                  enLog[j].area \cap enLog[k].area = {}

\* the first tile that fails to decompress, 0 for none
FirstDecompressFailure(read) ==
    LET failing == {t \in 1..read.n : read.ends[t] = "fail"}
    IN  IF failing = {} THEN 0 ELSE CHOOSE t \in failing : \A u \in failing : t <= u

\* C24: for the same image and rectangle the output and the result of a
\* parallel tiled read are the same under every scheduling of the workers
\* and equal those of the sequential path on the same input: tiles are
\* copied in discovery order, the areas written for different tiles are
\* disjoint, and the error is that of the first failing tile in discovery
\* order.
C24_ParallelEqualsSequential ==
    enPc = "done" =>
        LET seq == readTiledRegionSequential(enRead, 1, <<>>)
        IN  /\ BlitsInOrderAndApart
            /\ enResult = seq.result
            /\ FailedTile(enLog) = seq.tile
            /\ OutputOf(enResult, enRead.n, Blitted(enLog))
                    = OutputOf(seq.result, enRead.n, seq.blits)

\* what the code does: the read fails exactly when the sequential path
\* fails, with the same output when it succeeds; the error is that of the
\* first tile whose seek or read fails if there is one, else that of the
\* first tile whose decompression fails, which is the error of the
\* sequential path unless a tile before the one that cannot be read fails
\* to decompress
C24_ParallelEqualsSequentialButReadErrorsFirst ==
    enPc = "done" =>
        LET seq == readTiledRegionSequential(enRead, 1, <<>>)
            bad == FirstDecompressFailure(enRead)
        IN  /\ BlitsInOrderAndApart
            /\ (enResult = "ok") <=> (seq.result = "ok")
            /\ OutputOf(enResult, enRead.n, Blitted(enLog))
                    = OutputOf(seq.result, enRead.n, seq.blits)
            /\ enRead.ioAt # 0 =>
                    /\ FailedTile(enLog) = enRead.ioAt
                    /\ enResult = (IF enRead.ioKind = "seek" THEN "failed to seek to tile"
                                   ELSE "failed to read tile")
            /\ (enRead.ioAt = 0 /\ bad # 0) =>
                    /\ FailedTile(enLog) = bad
                    /\ enResult = "failed to decompress tile"
            /\ (enRead.ioAt = 0 \/ bad = 0 \/ bad > enRead.ioAt) =>
                    /\ enResult = seq.result
                    /\ FailedTile(enLog) = seq.tile

\* three tiles decompressed by two workers, the second before the first:
\* the output holds each tile in its place
C24_Witness ==
    /\ enPc = "done" /\ enResult = "ok" /\ enRead.n = 3 /\ enRead.cores = 2
    /\ \E j, k \in DOMAIN enLog :
          /\ j < k
          /\ enLog[j].op = "decompress" /\ enLog[j].tile = 2
          /\ enLog[k].op = "decompress" /\ enLog[k].tile = 1
    /\ OutputOf(enResult, 3, Blitted(enLog)) = <<1, 1, 2, 2, 3, 3, 1, 1, 2, 2, 3, 3>>

\* tile 1 cannot be decompressed and tile 2 cannot be read: the parallel
\* read returns the error of tile 2, the sequential path that of tile 1
C24_ReadErrorOfLaterTile ==
    /\ enPc = "done" /\ enRead.ioAt = 2 /\ enRead.ends[1] = "fail"
    /\ enResult = "failed to read tile" /\ FailedTile(enLog) = 2
    /\ readTiledRegionSequential(enRead, 1, <<>>).tile = 1

\* two tiles fail to decompress: the error is that of the first
C24_FirstOfTwoFailures ==
    /\ enPc = "done" /\ enRead.n = 3 /\ enRead.ends = <<"ok", "fail", "fail">>
    /\ enResult = "failed to decompress tile" /\ FailedTile(enLog) = 2
    /\ Blitted(enLog) = <<1>>

(***************************************************************************)
(* readStrippedRegion on strips compressed with LZW or Deflate.  A strip   *)
(* of the file is known by the number of its compressed bytes and by the   *)
(* bytes a decoder makes of them.  The last strip of an image whose height *)
(* is not a multiple of RowsPerStrip holds the rows that are left; a       *)
(* writer may also have padded it to RowsPerStrip rows.                    *)
(***************************************************************************)
\* a byte of compressed data, as a pixel never holds it
CompressedByte == 254

StripSizes == {<<4, 4>>, <<2, 4>>, <<4, 2>>, <<2, 3>>}
StripRows == {1, 2, 3, 4}

\* the strips of the image: the rows of strip s, the last one padded with
\* zero rows when the writer pads; size is the compressed byte count, which
\* is that of the pixels when plain says the strips were stored as they are
\* (under the label LZW only strips of the full size are tried so)
StripImage(w, h, rowsPerStrip, compression, padded, plain) ==
    LET img == RegionImage(w, h, rowsPerStrip, 1)
    IN  [meta |-> img.meta, rowsPerStrip |-> rowsPerStrip, compression |-> compression,
         strips |-> [s \in DOMAIN img.strips |->
                        LET rows == img.strips[s]
                            data == IF padded
                                    THEN [k \in 1..(rowsPerStrip * w) |->
                                            IF k <= Len(rows) THEN rows[k] ELSE 0]
                                    ELSE rows
                        IN  [decoded |-> data,
                             size |-> IF plain THEN Len(data) ELSE Len(data) + 3]]]

\* decompressTile on a strip for LZW and Deflate: the data is taken for
\* uncompressed when it has the expected size (LZW), the decoded bytes must
\* reach the expected size and are cut to it
decompressStrip(strip, compression, tileWidth, tileHeight, bands, dataType) ==
    LET expectedSize == tileWidth * tileHeight * bands * getBytesPerSample(dataType)
    IN  IF compression = CompressionNone
        THEN [err |-> FALSE, data |-> strip.decoded]
        ELSE IF compression = CompressionLZW /\ strip.size = expectedSize
        THEN [err |-> FALSE,
              data |-> IF strip.size = Len(strip.decoded) THEN strip.decoded
                       ELSE [k \in 1..strip.size |-> CompressedByte]]
        ELSE IF Len(strip.decoded) < expectedSize
        THEN [err |-> TRUE, data |-> <<>>]
        ELSE [err |-> FALSE, data |-> SubSeq(strip.decoded, 1, expectedSize)]

\* readStrippedRegion: the strips of the rows asked for are decompressed
\* into stripCache in order, the first failure ends the read; then the
\* rows are copied
readCompressedStrips(img, x, y, width, height) ==
    LET meta == img.meta
        startStripIndex == y \div img.rowsPerStrip
        endStripIndex == (y + height - 1) \div img.rowsPerStrip
        needed == {s \in startStripIndex..endStripIndex : s < Len(img.strips)}
        d == [s \in DOMAIN img.strips |->
                decompressStrip(img.strips[s], img.compression, meta.Width,
                                img.rowsPerStrip, meta.BandCount, meta.DataType)]
    IN  IF \E s \in needed : d[s + 1].err
        THEN [err |-> "failed to decompress strip", output |-> <<>>]
        ELSE [err |-> "none",
              output |-> readStrippedRegion(
                            [meta |-> meta, rowsPerStrip |-> img.rowsPerStrip,
                             strips |-> [s \in DOMAIN img.strips |->
                                            IF (s - 1) \in needed THEN d[s].data ELSE <<>>]],
                            x, y, width, height)]

\* the rectangles inside the image
StripRects(meta) ==
    {r \in [X : 0..(meta.Width - 1), Y : 0..(meta.Height - 1),
            Width : 1..meta.Width, Height : 1..meta.Height] :
        r.X + r.Width <= meta.Width /\ r.Y + r.Height <= meta.Height}

StInit ==
    /\ \E s \in StripSizes, rowsPerStrip \in StripRows, padded \in BOOLEAN, plain \in BOOLEAN,
          compression \in {CompressionNone, CompressionLZW, CompressionDeflate} :
            /\ compression = CompressionNone => plain
            /\ compression = CompressionDeflate => ~plain
            /\ (compression = CompressionLZW /\ plain) => (padded \/ s[2] % rowsPerStrip = 0)
            /\ stImage = StripImage(s[1], s[2], rowsPerStrip, compression, padded, plain)
    /\ stCall = NoRect
    /\ stResult = NoValue
    /\ OthersIdle({"st"})

StReadStrippedRegion ==
    /\ stCall = NoRect
    /\ \E r \in StripRects(stImage.meta) :
            /\ stCall' = r
            /\ stResult' = readCompressedStrips(stImage, r.X, r.Y, r.Width, r.Height)
    /\ UNCHANGED stImage
    /\ UNCHANGED notSt

StNext == StReadStrippedRegion

SpecStrips == StInit /\ [][StNext]_vars

\* the number of rows the last strip of the image holds
StLastRows == stImage.meta.Height - (Len(stImage.strips) - 1) * stImage.rowsPerStrip

\* the last strip is shorter than RowsPerStrip, and the writer stored the
\* rows there are, compressed
StShortLastStrip ==
    /\ stImage.meta.Height % stImage.rowsPerStrip # 0
    /\ Len(stImage.strips[Len(stImage.strips)].decoded) = StLastRows * stImage.meta.Width
    /\ stImage.strips[Len(stImage.strips)].size
            # Len(stImage.strips[Len(stImage.strips)].decoded)

\* the rectangle read has rows of the last strip
StCoversLastStrip ==
    stCall.Y + stCall.Height > (Len(stImage.strips) - 1) * stImage.rowsPerStrip

\* the output holds the pixels of the rectangle
StRowsReturned ==
    /\ stResult.err = "none"
    /\ Len(stResult.output) = stCall.Width * stCall.Height
    /\ \A col \in 0..(stCall.Width - 1), row \in 0..(stCall.Height - 1) :
            stResult.output[row * stCall.Width + col + 1]
                = PixelByte(stImage.meta.Width, stCall.X + col, stCall.Y + row)

\* C27: for a stripped image compressed with LZW or Deflate whose height is
\* not a multiple of RowsPerStrip, a read whose rectangle has rows of the
\* final, shorter strip succeeds and returns those rows: the decompressed
\* size asked of a strip is that of the rows it holds.
C27_FinalStripRead ==
    (/\ stCall # NoRect
     /\ stImage.compression \in {CompressionLZW, CompressionDeflate}
     /\ StShortLastStrip /\ StCoversLastStrip) => StRowsReturned

\* what the code does: such a read fails, the last strip does not reach the
\* size of RowsPerStrip rows; a read of compressed strips that keeps clear
\* of a short last strip returns its rows
C27_FinalStripRefused ==
    (/\ stCall # NoRect
     /\ stImage.compression \in {CompressionLZW, CompressionDeflate}
     /\ \A s \in DOMAIN stImage.strips : stImage.strips[s].size # Len(stImage.strips[s].decoded))
    => IF StShortLastStrip /\ StCoversLastStrip
       THEN stResult.err = "failed to decompress strip"
       ELSE StRowsReturned

\* a Deflate image of 2x3 pixels in strips of 2 rows: the read of its last
\* row fails
C27_LastRowRefused ==
    /\ stCall = [X |-> 0, Y |-> 2, Width |-> 2, Height |-> 1]
    /\ stImage.meta.Width = 2 /\ stImage.meta.Height = 3 /\ stImage.rowsPerStrip = 2
    /\ stImage.compression = CompressionDeflate
    /\ Len(stImage.strips[2].decoded) = 2 /\ stImage.strips[2].size = 5
    /\ stResult.err = "failed to decompress strip"

\* the same image with the last strip padded to two rows is read
C27_PaddedLastRowRead ==
    /\ stCall = [X |-> 0, Y |-> 2, Width |-> 2, Height |-> 1]
    /\ stImage.meta.Width = 2 /\ stImage.meta.Height = 3 /\ stImage.rowsPerStrip = 2
    /\ stImage.compression = CompressionDeflate
    /\ Len(stImage.strips[2].decoded) = 4 /\ stImage.strips[2].size = 7
    /\ stResult = [err |-> "none", output |-> <<4, 5>>]
(***************************************************************************)
(* A tile, strip or tag read over HTTP: Seek to the offset, then           *)
(* io.ReadFull (for a tag: binary.Read, which is io.ReadFull on the bytes  *)
(* of the value).  io.ReadFull calls Read until its buffer is full or a    *)
(* call returns an error; each call is one step.                           *)
(***************************************************************************)
\* the answers of a server that honours the Range header but may cut a body
\* short or fail
RfKinds == {"range", "short", "fail"}

\* the readers: readTiledRegionSequential and ReadTagValue
RfCallers == {"tile", "tag"}

\* a plausible slip: Read is called once
ReadFullOnce(n, min, err) == FALSE

\* io.ReadFull: the loop goes on while the buffer is not full and the last
\* Read returned no error
ReadFullGoesOn(n, min, err) == n < min /\ err = "none"

\* io.ReadFull: the error returned when the loop is left
ReadFullErr(n, min, err) ==
    IF n >= min THEN "none"
    ELSE IF n > 0 /\ err = "eof" THEN "unexpected eof"
    ELSE err

\* the error the reader returns: readTiledRegionSequential wraps the error
\* of io.ReadFull, readValueAtOffset drops the error of binary.Read
CallerErr(caller, err) == IF caller = "tag" THEN "none" ELSE err

RfInit ==
    /\ size \in {FileLen, -1}
    /\ pos = 0
    /\ buffer = <<>>
    /\ bufferStart = -1
    /\ bufferEnd = -1
    /\ readAheadSize = 2
    /\ server = "shortens"
    /\ rrLast = NoCall
    /\ RFIdle
    /\ OthersIdle({"rr", "rf"})

\* Seek(offset, io.SeekStart) and the entry into io.ReadFull
RfStart ==
    /\ rfPc \in {"idle", "done"}
    /\ \E caller \in RfCallers : \E off \in 0..(FileLen - 1) : \E n \in 1..MaxRead :
        LET s == Seek(RRState, off, SeekStart)
        IN  /\ RRSetState(s.st)
            /\ rfCall' = [caller |-> caller, off |-> off, n |-> n,
                         oldPos |-> IF caller = "tag" THEN pos ELSE 0]
            /\ rfPc' = "reading"
            /\ rfOut' = <<>>
            /\ rfReqs' = <<>>
            /\ rfErr' = "none"
    /\ UNCHANGED <<size, readAheadSize, server, rrLast>>
    /\ UNCHANGED notRF

\* one Read of the loop; when the loop is left the tile read returns, and
\* the tag read seeks back to oldPos and returns
RfRead ==
    /\ rfPc = "reading"
    /\ \E kind \in RfKinds :
        LET asked == rfCall.n - Len(rfOut)
            r == Read(RRState, asked, kind)
            out == rfOut \o r.out
            on == ReadFullGoesOn(Len(out), rfCall.n, r.err)
            st1 == IF ~on /\ rfCall.caller = "tag"
                   THEN Seek(r.st, rfCall.oldPos, SeekStart).st
                   ELSE r.st
        IN  /\ RRSetState(st1)
            /\ rfOut' = out
            /\ rfReqs' = rfReqs \o
                    [i \in 1..Len(r.reqs) |->
                        [start |-> r.reqs[i].start, end |-> r.reqs[i].end,
                         status |-> r.reqs[i].status, got |-> r.reqs[i].got,
                         at |-> Len(rfOut), asked |-> asked, gave |-> Len(r.out)]]
            /\ rfPc' = IF on THEN "reading" ELSE "done"
            /\ rfErr' = IF on THEN "none"
                        ELSE CallerErr(rfCall.caller, ReadFullErr(Len(out), rfCall.n, r.err))
    /\ UNCHANGED <<size, readAheadSize, server, rrLast, rfCall>>
    /\ UNCHANGED notRF

RfNext == RfStart \/ RfRead

SpecReadFull == RfInit /\ [][RfNext]_vars

\* request i of the read was accepted with fewer bytes than its range, the
\* range lying before the end of the file, and the Read that sent it came
\* back with fewer bytes than it was asked for
ShortAt(i) ==
    /\ rfReqs[i].status \in {206, 200}
    /\ rfReqs[i].end < FileLen
    /\ rfReqs[i].got < rfReqs[i].end - rfReqs[i].start + 1
    /\ rfReqs[i].gave < rfReqs[i].asked

\* C20: when an accepted response carries fewer bytes than requested
\* although the range lies before the end of the file, the tile, strip or
\* tag read that needed those bytes fails with an error and no further
\* range request is issued for the missing bytes.
C20_ShortResponseFailsRead ==
    \A i \in 1..Len(rfReqs) :
        ShortAt(i) =>
            /\ i = Len(rfReqs)
            /\ rfPc = "done" => rfErr # "none"

\* what the code does for a tile: after a short response the next Read asks
\* for the missing bytes from the first one on, and the read returns with
\* no error exactly when the buffer was filled with the file's bytes
C20_TileReadGoesOn ==
    /\ \A i \in 1..(Len(rfReqs) - 1) :
            ShortAt(i) /\ rfReqs[i].gave > 0 =>
                /\ rfReqs[i + 1].start = rfCall.off + rfReqs[i + 1].at
                /\ rfReqs[i + 1].at = rfReqs[i].at + rfReqs[i].gave
    /\ (rfPc = "done" /\ rfCall.caller = "tile") =>
            IF rfErr = "none"
            THEN rfOut = Slice(fileData, rfCall.off, rfCall.off + rfCall.n)
            ELSE Len(rfOut) < rfCall.n

\* a tile read that succeeded after a short response and a second request
C20_TileReadWentOn ==
    /\ rfPc = "done" /\ rfCall.caller = "tile" /\ rfErr = "none"
    /\ Len(rfReqs) = 2 /\ ShortAt(1)
    /\ rfCall.off + rfCall.n <= FileLen

\* what the code does for a tag: no error is ever returned
C20_TagReadNeverFails ==
    (rfPc = "done" /\ rfCall.caller = "tag") => rfErr = "none"

\* a tag read that returned no error although its bytes never came
C20_TagReadSwallowed ==
    /\ rfPc = "done" /\ rfCall.caller = "tag" /\ rfErr = "none"
    /\ Len(rfOut) < rfCall.n /\ rfCall.off + rfCall.n <= FileLen
    /\ Len(rfReqs) = 2 /\ ShortAt(1) /\ rfReqs[2].status = 500
(***************************************************************************)
(* decodeBytesToFlat for every data type.  A uint64 is held as its four    *)
(* 16-bit limbs, the most significant first, so that the sign extension of *)
(* the signed types and the wrap of the subtraction are kept.              *)
(***************************************************************************)
U64Zero == <<0, 0, 0, 0>>

\* uint64(v) for 0 <= v < 2^16
U64Small(v) == <<0, 0, 0, v>>

\* a < b on uint64
U64Less(a, b) ==
    \E i \in 1..4 : a[i] < b[i] /\ \A j \in 1..(i - 1) : a[j] = b[j]

\* a - b on uint64, wrapping
U64Sub(a, b) ==
    LET d4 == a[4] - b[4]
        d3 == a[3] - b[3] - (IF d4 < 0 THEN 1 ELSE 0)
        d2 == a[2] - b[2] - (IF d3 < 0 THEN 1 ELSE 0)
        d1 == a[1] - b[1] - (IF d2 < 0 THEN 1 ELSE 0)
    IN  <<(d1 + 65536) % 65536, (d2 + 65536) % 65536,
          (d3 + 65536) % 65536, (d4 + 65536) % 65536>>

\* (a << 1) | bit on uint64
U64Shl1(a, bit) ==
    LET v4 == a[4] * 2 + bit
        v3 == a[3] * 2 + (v4 \div 65536)
        v2 == a[2] * 2 + (v3 \div 65536)
        v1 == a[1] * 2 + (v2 \div 65536)
    IN  <<v1 % 65536, v2 % 65536, v3 % 65536, v4 % 65536>>

\* bit i of a, bit 0 the least significant
U64Bit(a, i) == (a[4 - (i \div 16)] \div (2 ^ (i % 16))) % 2

\* a with bit i set (it was clear)
U64SetBit(a, i) == [a EXCEPT ![4 - (i \div 16)] = @ + 2 ^ (i % 16)]

\* the quotient of n by d (d < 2^63), bit by bit from bit i down
RECURSIVE U64DivFrom(_, _, _, _, _)
U64DivFrom(i, q, r, n, d) ==
    LET r1 == U64Shl1(r, U64Bit(n, i))
    IN  IF U64Less(r1, d)
        THEN IF i = 0 THEN q ELSE U64DivFrom(i - 1, q, r1, n, d)
        ELSE IF i = 0 THEN U64SetBit(q, i)
             ELSE U64DivFrom(i - 1, U64SetBit(q, i), U64Sub(r1, d), n, d)

\* n / d on uint64, d # 0
U64Div(n, d) ==
    IF d[1] >= 32768
    THEN IF U64Less(n, d) THEN U64Zero ELSE U64Small(1)
    ELSE U64DivFrom(63, U64Zero, U64Zero, n, d)

\* byteOrder.SampleUint16(data[o : o+2])
SampleUint16(data, o, byteOrder) ==
    IF byteOrder = "II" THEN data[o + 1] + 256 * data[o + 2]
    ELSE 256 * data[o + 1] + data[o + 2]

\* uint64(byteOrder.SampleUint32(data[o : o+4]))
SampleUint32(data, o, byteOrder) ==
    IF byteOrder = "II"
    THEN <<0, 0, SampleUint16(data, o + 2, byteOrder), SampleUint16(data, o, byteOrder)>>
    ELSE <<0, 0, SampleUint16(data, o, byteOrder), SampleUint16(data, o + 2, byteOrder)>>

\* byteOrder.SampleUint64(data[o : o+8])
SampleUint64(data, o, byteOrder) ==
    IF byteOrder = "II"
    THEN <<SampleUint16(data, o + 6, byteOrder), SampleUint16(data, o + 4, byteOrder),
           SampleUint16(data, o + 2, byteOrder), SampleUint16(data, o, byteOrder)>>
    ELSE <<SampleUint16(data, o, byteOrder), SampleUint16(data, o + 2, byteOrder),
           SampleUint16(data, o + 4, byteOrder), SampleUint16(data, o + 6, byteOrder)>>

\* uint64(int8(b))
OfInt8(b) == IF b >= 128 THEN <<65535, 65535, 65535, 65280 + b>> ELSE U64Small(b)

\* uint64(int16(v))
OfInt16(v) == IF v >= 32768 THEN <<65535, 65535, 65535, v>> ELSE U64Small(v)

\* uint64(int32(w)) for w = uint64(uint32)
OfInt32(w) == IF w[3] >= 32768 THEN <<65535, 65535, w[3], w[4]>> ELSE w

\* the switch on dataType: the value of the sample at sampleOffset
SampleValue(data, o, dataType, byteOrder) ==
    CASE dataType \in {DTByte, DTASCII, DTUndefined} -> U64Small(data[o + 1])
      [] dataType = DTSByte -> OfInt8(data[o + 1])
      [] dataType = DTSShort -> U64Small(SampleUint16(data, o, byteOrder))
      [] dataType = DTSShortS -> OfInt16(SampleUint16(data, o, byteOrder))
      [] dataType = DTSLong -> SampleUint32(data, o, byteOrder)
      [] dataType = DTSLongS -> OfInt32(SampleUint32(data, o, byteOrder))
      [] dataType = DTFloat -> SampleUint32(data, o, byteOrder)
      [] dataType = DTDouble -> SampleUint64(data, o, byteOrder)
      [] dataType = DTRational ->
            LET num == SampleUint32(data, o, byteOrder)
                den == SampleUint32(data, o + 4, byteOrder)
            IN  IF den # U64Zero THEN U64Div(num, den) ELSE U64Zero
      [] dataType = DTSRational ->
            LET num == OfInt32(SampleUint32(data, o, byteOrder))
                den == OfInt32(SampleUint32(data, o + 4, byteOrder))
            IN  IF den # U64Zero THEN U64Div(num, den) ELSE U64Zero
      [] OTHER -> U64Small(data[o + 1])

\* maxValue of the inversion
MaxValueOf(dataType) ==
    CASE dataType \in {DTByte, DTASCII, DTUndefined} -> U64Small(255)
      [] dataType = DTSByte -> U64Small(127)
      [] dataType = DTSShort -> U64Small(65535)
      [] dataType = DTSShortS -> U64Small(32767)
      [] dataType = DTSLong -> <<0, 0, 65535, 65535>>
      [] dataType = DTSLongS -> <<0, 0, 32767, 65535>>
      [] OTHER -> U64Small(255)

\* a plausible slip: the band count is not looked at
InvertedAnyBands(photometricInterpretation, bands) == photometricInterpretation = 0

\* WhiteIsZero on a grayscale image
Inverted(photometricInterpretation, bands) ==
    photometricInterpretation = 0 /\ bands = 1

\* a plausible slip: the sample is looked for at its index
SampleOffsetOfIndex(i, bands, bytesPerSample) == i

\* sampleOffset of result index i (from 0): pixelOffset + b*bytesPerSample
SampleOffset(i, bands, bytesPerSample) ==
    (i \div bands) * (bands * bytesPerSample) + (i % bands) * bytesPerSample

\* decodeBytesToFlat with all its arguments
decodeBytesToUint64(data, width, height, bands, dataType, byteOrder, photometric) ==
    LET totalPixels == width * height * bands
        bytesPerSample == getBytesPerSample(dataType)
        result == [i \in 1..totalPixels |->
                    LET sampleOffset == SampleOffset(i - 1, bands, bytesPerSample)
                    IN  IF sampleOffset + bytesPerSample > Len(data)
                        THEN U64Zero
                        ELSE SampleValue(data, sampleOffset, dataType, byteOrder)]
    IN  IF Inverted(photometric, bands)
        THEN [i \in 1..totalPixels |-> U64Sub(MaxValueOf(dataType), result[i])]
        ELSE result

(***************************************************************************)
(* The calls tried: every data type, both byte orders, buffers of every    *)
(* length from empty to longer than the image needs.                       *)
(***************************************************************************)
\* width, height, bands
DecodeDims == {<<1, 1, 1>>, <<2, 1, 1>>, <<1, 2, 1>>, <<1, 1, 2>>}

\* the byte patterns a buffer repeats
BytePatterns ==
    {<<10>>, <<255, 128>>, <<0, 0, 0, 128, 2, 0, 0, 0>>, <<129, 2, 3, 4, 0, 0, 1, 0>>}

\* the lengths of the buffers, up to the 16 bytes of two doubles and beyond
DataLens == {0, 1, 2, 3, 4, 6, 8, 12, 16, 17}

\* the data types, 13 standing for an unknown type
DecodeTypes == 1..13

\* n bytes repeating the pattern
PatternBytes(pattern, n) == [i \in 1..n |-> pattern[((i - 1) % Len(pattern)) + 1]]

\* the further bytes X tried
FurtherBytes == {<<9>>, PatternBytes(<<200, 9, 1>>, 16)}

DcInit ==
    /\ \E d \in DecodeDims, pattern \in BytePatterns, n \in DataLens, X \in FurtherBytes,
          dataType \in DecodeTypes, byteOrder \in {"II", "MM"}, photometric \in {0, 1, 2} :
            dcIn = [data |-> PatternBytes(pattern, n), X |-> X,
                    width |-> d[1], height |-> d[2], bands |-> d[3],
                    dataType |-> dataType, byteOrder |-> byteOrder,
                    photometric |-> photometric]
    /\ dcOut = <<>>
    /\ dcOutExt = <<>>
    /\ OthersIdle({"dc"})

\* decodeBytesToFlat on the data, and on the data followed by X
DcDecode ==
    /\ dcOut = <<>>
    /\ dcOut' = decodeBytesToUint64(dcIn.data, dcIn.width, dcIn.height, dcIn.bands,
                                    dcIn.dataType, dcIn.byteOrder, dcIn.photometric)
    /\ dcOutExt' = decodeBytesToUint64(dcIn.data \o dcIn.X, dcIn.width, dcIn.height,
                                       dcIn.bands, dcIn.dataType, dcIn.byteOrder,
                                       dcIn.photometric)
    /\ UNCHANGED dcIn
    /\ UNCHANGED notDc

DcNext == DcDecode

SpecDecode == DcInit /\ [][DcNext]_vars

\* the number of values and of bytes of the image of the call
DcValues == dcIn.width * dcIn.height * dcIn.bands

DcBytes == DcValues * getBytesPerSample(dcIn.dataType)

\* C14 as stated: for any buffer B, shorter than the image needs or not, and
\* any bytes X, decode(B) has exactly w*h*bands values and the first
\* w*h*bands values of decode(B followed by X) equal decode(B).
C14_DecodeIgnoresFurtherBytes ==
    dcOut # <<>> =>
        /\ Len(dcOut) = DcValues
        /\ SubSeq(dcOutExt, 1, DcValues) = dcOut

\* C14 (amended): decode(B) has exactly w*h*bands values for every B; the
\* values of decode(B followed by X) equal those of decode(B) when B holds at
\* least the w*h*bands*bps bytes of the image; for a shorter B they are
\* equal for the samples whose bytes lie wholly in B, and every other sample
\* of decode(B) is 0, or maxValue under the inversion.
C14_DecodeIgnoresBytesBeyondImage ==
    dcOut # <<>> =>
        LET bps == DcBytes \div DcValues
            inverted == dcIn.photometric = 0 /\ dcIn.bands = 1
        IN  /\ Len(dcOut) = DcValues /\ Len(dcOutExt) = DcValues
            /\ Len(dcIn.data) >= DcBytes => dcOutExt = dcOut
            /\ \A i \in 1..DcValues :
                IF i * bps <= Len(dcIn.data)
                THEN dcOutExt[i] = dcOut[i]
                ELSE dcOut[i] = IF inverted THEN MaxValueOf(dcIn.dataType) ELSE U64Zero

\* a buffer that ends inside the second of two 16-bit samples: the first is
\* decoded, the second is 0 and comes out of X when X follows
C14_Witness ==
    /\ dcOut # <<>> /\ dcIn.dataType = DTSShort /\ dcIn.width = 2
    /\ Len(dcIn.data) = 3 /\ dcIn.photometric = 2
    /\ dcOut[1] # U64Zero /\ dcOut[2] = U64Zero
    /\ dcOutExt[1] = dcOut[1] /\ dcOutExt[2] # U64Zero

\* a buffer longer than the image: the bytes behind it change nothing
C14_WitnessLong ==
    /\ dcOut # <<>> /\ dcIn.dataType = DTDouble /\ DcValues = 2
    /\ Len(dcIn.data) = 17 /\ Len(dcIn.X) = 16 /\ dcOutExt = dcOut

\* the decoded values without the inversion
DcPlain ==
    decodeBytesToUint64(dcIn.data, dcIn.width, dcIn.height, dcIn.bands,
                        dcIn.dataType, dcIn.byteOrder, 2)

\* the value of a small signed sample held as a sign-extended uint64
SmallSigned(v) == IF v[1] = 65535 THEN v[4] - 65536 ELSE v[4]

\* C15: with photometric 0 and one band every decoded value v is replaced by
\* max - v, with max 255, 127, 65535, 32767, 2^32-1, 2^31-1 for byte, sbyte,
\* u16, i16, u32, i32, a negative sample of a signed type counting with its
\* sign (the sign-extended uint64 wraps in the subtraction); with another
\* photometric value or another band count the values are left as decoded.
C15_WhiteIsZeroInverts ==
    dcOut # <<>> =>
        IF dcIn.photometric = 0 /\ dcIn.bands = 1
        THEN \A i \in 1..Len(dcOut) :
                LET v == DcPlain[i]
                    t == dcIn.dataType
                IN  /\ t \in {DTByte, DTASCII, DTUndefined} => dcOut[i] = <<0, 0, 0, 255 - v[4]>>
                    /\ t = DTSByte => dcOut[i] = <<0, 0, 0, 127 - SmallSigned(v)>>
                    /\ t = DTSShort => dcOut[i] = <<0, 0, 0, 65535 - v[4]>>
                    /\ t = DTSShortS => dcOut[i] = <<0, 0, 0, 32767 - SmallSigned(v)>>
                    /\ t = DTSLong => dcOut[i] = <<0, 0, 65535 - v[3], 65535 - v[4]>>
                    /\ t = DTSLongS =>
                            dcOut[i] = <<0, 0, (32767 - v[3] + 65536) % 65536, 65535 - v[4]>>
        ELSE dcOut = DcPlain

\* the raw byte 10 of a WhiteIsZero byte image decodes to 245
C15_Witness ==
    /\ dcOut # <<>> /\ dcIn.dataType = DTByte /\ dcIn.photometric = 0
    /\ dcIn.bands = 1 /\ dcIn.data = <<10>> /\ DcValues = 1
    /\ dcOut = <<U64Small(245)>>

\* the signed byte -127 (raw 129) of a WhiteIsZero image decodes to 254
C15_WitnessNegative ==
    /\ dcOut # <<>> /\ dcIn.dataType = DTSByte /\ dcIn.photometric = 0
    /\ dcIn.bands = 1 /\ Len(dcIn.data) >= 1 /\ dcIn.data[1] = 129
    /\ dcOut[1] = U64Small(254)

\* the most negative int32 of a WhiteIsZero image decodes to 2^32 - 1
C15_WitnessNegativeLong ==
    /\ dcOut # <<>> /\ dcIn.dataType = DTSLongS /\ dcIn.photometric = 0
    /\ dcIn.byteOrder = "II" /\ Len(dcIn.data) >= 4
    /\ SubSeq(dcIn.data, 1, 4) = <<0, 0, 0, 128>>
    /\ dcOut[1] = <<0, 0, 65535, 65535>>

\* two bands: the values of a WhiteIsZero image are left as decoded
C15_WitnessTwoBands ==
    /\ dcOut # <<>> /\ dcIn.dataType = DTByte /\ dcIn.photometric = 0
    /\ dcIn.bands = 2 /\ dcIn.data = <<255, 128>>
    /\ dcOut = <<U64Small(255), U64Small(128)>>
(***************************************************************************)
(* The byte slice pool: four sync.Pool, one per size class.  A sync.Pool   *)
(* promises no relation between what is put and what Get returns: Get may  *)
(* hand out any buffer lying in the pool or make a new one.                *)
(***************************************************************************)
smallBufferSize == 65536
mediumBufferSize == 262144
largeBufferSize == 1048576

\* the most buffers made in a run
MaxBuffers == 3

BucketSizes == {smallBufferSize, mediumBufferSize, largeBufferSize, xlargeBufferSize}

\* the sizes asked of GetBuffer
PoolSizes == {1, smallBufferSize, smallBufferSize + 1, xlargeBufferSize + 1}

\* GetBuffer: the class that serves a size, 0 for a size beyond the classes
BucketOf(n) ==
    IF n <= smallBufferSize THEN smallBufferSize
    ELSE IF n <= mediumBufferSize THEN mediumBufferSize
    ELSE IF n <= largeBufferSize THEN largeBufferSize
    ELSE IF n <= xlargeBufferSize THEN xlargeBufferSize
    ELSE 0

\* a plausible slip: the slice is filed under its length
FiledUnderLen(length, capacity) == length

\* PutBuffer: the slice is filed under cap(buf)
FiledUnder(length, capacity) == capacity

\* the slices a caller can make of the slice it holds and pass to PutBuffer:
\* the slice itself, buf[:0], and buf[1:] when it has a byte
Reslices(s) ==
    {s, [s EXCEPT !.len = 0]} \cup
    (IF s.len > 0 THEN {[s EXCEPT !.len = @ - 1, !.cap = @ - 1]} ELSE {})

PlInit ==
    /\ plPool = [b \in BucketSizes |-> {}]
    /\ plHeld = {}
    /\ plCaps = <<>>
    /\ plLast = [op |-> "none"]
    /\ OthersIdle({"pl"})

\* GetBuffer(n): from the class of n a buffer of its pool or a new one, and a
\* new slice of n bytes beyond the classes
PlGetBuffer ==
    \E n \in PoolSizes :
        LET b == BucketOf(n)
            new == Len(plCaps) + 1
            from == IF b = 0 THEN {new} ELSE plPool[b] \cup {new}
        IN  \E id \in from :
                /\ id = new => Len(plCaps) < MaxBuffers
                /\ plCaps' = IF id = new
                             THEN Append(plCaps, [cap |-> IF b = 0 THEN n ELSE b,
                                                  dropped |-> FALSE])
                             ELSE plCaps
                /\ plPool' = IF b = 0 THEN plPool ELSE [plPool EXCEPT ![b] = @ \ {id}]
                /\ plHeld' = plHeld \cup {[id |-> id, len |-> n,
                                           cap |-> IF b = 0 THEN n ELSE b]}
                /\ plLast' = [op |-> "get", n |-> n, id |-> id, len |-> n,
                              cap |-> IF b = 0 THEN n ELSE b,
                              new |-> id = new,
                              lay |-> IF b = 0 THEN {} ELSE plPool[b],
                              back |-> FALSE]
                /\ UNCHANGED notPl

\* PutBuffer(buf) of a slice of a buffer the caller holds; what the pool
\* keeps is the slice buf[:cap], so the capacity of the buffer is from then
\* on that of the slice
PlPutBuffer ==
    \E s \in plHeld : \E buf \in Reslices(s) :
        LET c == FiledUnder(buf.len, buf.cap)
            filed == c # 0 /\ c \in BucketSizes
        IN  /\ plHeld' = plHeld \ {s}
            /\ plPool' = IF filed THEN [plPool EXCEPT ![c] = @ \cup {s.id}] ELSE plPool
            /\ plCaps' = IF filed THEN [plCaps EXCEPT ![s.id].cap = c]
                         ELSE [plCaps EXCEPT ![s.id].dropped = TRUE]
            /\ plLast' = [op |-> "put", n |-> 0, id |-> s.id, len |-> buf.len,
                          cap |-> buf.cap, new |-> FALSE, lay |-> {},
                          back |-> plLast.op = "get" /\ plLast.id = s.id /\ buf = s,
                          gotN |-> IF plLast.op = "get" THEN plLast.n ELSE 0]
            /\ UNCHANGED notPl

PlNext == PlGetBuffer \/ PlPutBuffer

SpecPool == PlInit /\ [][PlNext]_vars

\* the buffers lying in the pools
PlPooled == UNION {plPool[b] : b \in BucketSizes}

\* every pooled buffer lies under its capacity, no buffer is pooled and held
\* at once, and a discarded buffer is neither pooled nor held
PlFiling ==
    /\ \A b \in BucketSizes : \A id \in plPool[b] : plCaps[id].cap = b
    /\ \A s \in plHeld : s.id \notin PlPooled
    /\ \A id \in 1..Len(plCaps) :
            plCaps[id].dropped => id \notin PlPooled /\ \A s \in plHeld : s.id # id
    /\ plLast.op = "put" =>
            IF plLast.cap \in BucketSizes
            THEN plLast.id \in plPool[plLast.cap]
            ELSE plLast.id \notin PlPooled /\ plCaps[plLast.id].dropped

C16_WitnessDiscarded ==
    /\ plLast.op = "put" /\ plLast.cap = 65535
    /\ plCaps[plLast.id].dropped /\ plLast.id \notin PlPooled

\* after the release of the only buffer the next acquire made a new one
C16_WitnessNew ==
    /\ plLast.op = "get" /\ plLast.new /\ plLast.lay # {} /\ Len(plCaps) = 2
====
